---- MODULE Spec2Model ----
(***************************************************************************)
(* A model of the healthcare backend's encryption core:                    *)
(*   - the key store (table encryption_keys) and the HTTP handlers of      *)
(*     app/api/encryption.py that read and rotate it;                      *)
(*   - the EncryptionService of app/utils/encryption.py with its audit     *)
(*     log (table encryption_audit_log).                                   *)
(* Every database statement is one atomic step on the committed tables     *)
(* (READ COMMITTED: a statement sees what was committed before it); the    *)
(* handlers run in a thread pool, one session each, so their steps         *)
(* interleave.                                                             *)
(***************************************************************************)
EXTENDS Integers, Sequences, FiniteSets, TLC

\* ------------------------------------------------------------------ bounds
\* Number of rotate requests that are issued in one behaviour.
MaxRequests == 2
\* Rows the audit table holds at most.
MaxAudit == 2
\* Rows the caller adds to its session at most.
MaxPatients == 1
\* A bulk call starts while the audit table holds fewer rows than this.
MaxBulkAudit == 1
\* Websockets that are opened in one behaviour.
MaxHandles == 2
\* Rows of an uploaded file.
MaxRows == 2

\* --------------------------------------------------------------- constants
\* rotated_at of a key that was never rotated (nullable column).
NULL == 0

Requests == 1..MaxRequests
\* The versions and algorithms a KeyRotationRequest is drawn from; "v1.0" is
\* the seeded version, so a request for it is a request for an existing one.
Versions == {"v1.0", "v2.0", "v3.0"}
Algorithms == {"AES-256"}

VARIABLES
    keys,       \* table encryption_keys: a sequence of rows, the row's id its index
    clock,      \* datetime.utcnow(): the next timestamp to be handed out
    rot,        \* the rotate requests: each one's locals and position
    reader,     \* list_encryption_keys between its two queries
    observed,   \* what the last read request returned to its caller
    env,        \* os.environ["ENCRYPTION_KEY"] of the process
    cipher,     \* encryption_service._cipher: the cached Fernet instance
    audit,      \* table encryption_audit_log, the committed rows in order
    pending,    \* rows the caller has added to its session and not committed
    patients,   \* number of committed rows of the caller's table
    outcome,    \* how the last direct encrypt_field / decrypt_field call ended
    bulk,       \* how the last bulk_*_patient_data call ended
    upload,     \* the upload request: its locals, its position, its patients
    active_connections,   \* ConnectionManager: user_id -> list of websockets
    connection_metadata,  \* websocket -> its user_id, user_role, connection_id
    rooms,                \* room name -> set of websockets
    connection_ids,       \* connection id -> websocket
    client_state,         \* each websocket's transport
    delivered,            \* what the last manager call or handler has put on each websocket
    wsop,                 \* the manager call or handler that ended last
    sender,               \* a send_to_user call suspended in its loop
    endpoint              \* each websocket's endpoint: its locals and position

rotVars == <<keys, clock, rot, reader, observed>>
encVars == <<env, cipher, audit, pending, patients, outcome, bulk, upload>>
wsVars == <<active_connections, connection_metadata, rooms, connection_ids,
            client_state, delivered, wsop, sender, endpoint>>
vars == <<keys, clock, rot, reader, observed,
          env, cipher, audit, pending, patients, outcome, bulk, upload,
          active_connections, connection_metadata, rooms, connection_ids,
          client_state, delivered, wsop, sender, endpoint>>

\* ------------------------------------------------------------ the key table
EncryptionKey(v, h, a, act, c, r) ==
    [key_version |-> v, key_hash |-> h, algorithm |-> a,
     is_active |-> act, created_at |-> c, rotated_at |-> r]

\* seed_data.py: one key, v1.0, active.
SeedKeys == << EncryptionKey("v1.0", 0, "AES-256", TRUE, 1, NULL) >>

Ids(ks) == DOMAIN ks
\* db.query(EncryptionKey).filter(EncryptionKey.is_active == True)
ActiveIds(ks) == {i \in Ids(ks) : ks[i].is_active}
\* db.query(EncryptionKey).filter(EncryptionKey.key_version == v)
IdsOfVersion(ks, v) == {i \in Ids(ks) : ks[i].key_version = v}

\* ------------------------------------------------------- the rotate request
NoResponse == [status |-> 0, detail |-> "", old_key_version |-> "", new_key_version |-> ""]
HTTPException(code, text) ==
    [status |-> code, detail |-> text, old_key_version |-> "", new_key_version |-> ""]
KeyRotationResponse(old, new) ==
    [status |-> 200, detail |-> "success", old_key_version |-> old, new_key_version |-> new]

NoActiveKey == HTTPException(400, "No active key found")
KeyVersionConflict == HTTPException(400, "Key version already exists")
\* except Exception as e: ... 500, "Key rotation failed: {e}", by what e was
RotationFailedIntegrity == HTTPException(500, "Key rotation failed: IntegrityError")
RotationFailedDatabase == HTTPException(500, "Key rotation failed: OperationalError")

IdleRequest ==
    [pc |-> "idle", new_key_version |-> "", algorithm |-> "", old_key |-> 0,
     new_key |-> 0, response |-> NoResponse,
     start_keys |-> << >>, peers |-> {}, writes |-> 0]

InFlight(q) == q.pc \notin {"idle", "done"}

\* Bookkeeping for the claims (not program state): start_keys is the table as
\* the request found it, writes counts its committed writes, and peers are the
\* requests that took a step while it was in flight.
Stepped(r, f) ==
    [q \in Requests |->
        IF q # r /\ InFlight(f[q]) THEN [f[q] EXCEPT !.peers = @ \cup {r}] ELSE f[q]]

Finish(req, resp) == [req EXCEPT !.pc = "done", !.response = resp]

\* rotate_encryption_key, lines 76-79: the active key is looked up; with several
\* active rows .first() returns whichever the database yields first.
\* Requests are numbered in the order they arrive.
RotateStart(r, v, a) ==
    /\ rot[r].pc = "idle"
    /\ r > 1 => rot[r - 1].pc # "idle"
    /\ LET req == [rot[r] EXCEPT !.new_key_version = v, !.algorithm = a,
                                 !.start_keys = keys]
       IN  IF ActiveIds(keys) = {}
           THEN rot' = Stepped(r, [rot EXCEPT ![r] = Finish(req, NoActiveKey)])
           ELSE \E k \in ActiveIds(keys) :
                   rot' = Stepped(r, [rot EXCEPT ![r] =
                              [req EXCEPT !.pc = "check", !.old_key = k]])
    /\ UNCHANGED <<keys, clock, reader, observed>>
    /\ UNCHANGED encVars
    /\ UNCHANGED wsVars

\* lines 81-93: the new version must not exist yet.
CheckExisting(r) ==
    /\ rot[r].pc = "check"
    /\ IF IdsOfVersion(keys, rot[r].new_key_version) # {}
       THEN rot' = Stepped(r, [rot EXCEPT ![r] = Finish(@, KeyVersionConflict)])
       ELSE rot' = Stepped(r, [rot EXCEPT ![r].pc = "insert"])
    /\ UNCHANGED <<keys, clock, reader, observed>>
    /\ UNCHANGED encVars
    /\ UNCHANGED wsVars

\* lines 95-102: the row of the new key; it is not active yet.
NewKeyRow(v, h, a, now) == EncryptionKey(v, h, a, FALSE, now, NULL)

\* MarkRotated as it would be without line 112.
MarkRotatedNoTimestamp(row, now) == [row EXCEPT !.is_active = FALSE]

\* MarkRotated as it would be if the update also stamped created_at.
MarkRotatedTouchesCreated(row, now) ==
    [row EXCEPT !.is_active = FALSE, !.rotated_at = now, !.created_at = now]

\* lines 111-112: old_key.is_active = False; old_key.rotated_at = utcnow()
MarkRotated(row, now) == [row EXCEPT !.is_active = FALSE, !.rotated_at = now]

\* line 121: new_key.is_active = True
MarkActive(row) == [row EXCEPT !.is_active = TRUE]

\* lines 95-105: db.add(new_key); db.commit(). key_version is UNIQUE: when
\* another request has registered the version since the check, the INSERT
\* raises IntegrityError, which the handler's "except Exception" turns into a
\* rollback and a 500.
InsertKey(r) ==
    /\ rot[r].pc = "insert"
    /\ IF IdsOfVersion(keys, rot[r].new_key_version) # {}
       THEN /\ rot' = Stepped(r, [rot EXCEPT ![r] = Finish(@, RotationFailedIntegrity)])
            /\ UNCHANGED <<keys, clock>>
       ELSE /\ keys' = Append(keys, NewKeyRow(rot[r].new_key_version, r,
                                              rot[r].algorithm, clock))
            /\ clock' = clock + 1
            /\ rot' = Stepped(r, [rot EXCEPT ![r].pc = "count",
                                             ![r].new_key = Len(keys) + 1,
                                             ![r].writes = @ + 1])
    /\ UNCHANGED <<reader, observed>>
    /\ UNCHANGED encVars
    /\ UNCHANGED wsVars

\* The database refuses a statement or a commit (connection lost, timeout):
\* the handler's "except Exception" rolls the open transaction back (what
\* was committed before stays) and answers 500.  Lines 105, 108, 113, 122.
DatabaseFails(r, at) ==
    /\ rot[r].pc = at
    /\ rot' = Stepped(r, [rot EXCEPT ![r] = Finish(@, RotationFailedDatabase)])
    /\ UNCHANGED <<keys, clock, reader, observed>>
    /\ UNCHANGED encVars
    /\ UNCHANGED wsVars

InsertKeyFails(r) == DatabaseFails(r, "insert")

\* line 108: affected_records = db.query(Patient).count()
CountAffected(r) ==
    /\ rot[r].pc = "count"
    /\ rot' = Stepped(r, [rot EXCEPT ![r].pc = "deactivate"])
    /\ UNCHANGED <<keys, clock, reader, observed>>
    /\ UNCHANGED encVars
    /\ UNCHANGED wsVars

CountAffectedFails(r) == DatabaseFails(r, "count")

\* lines 110-113: the old key row is written by primary key (UPDATE ... WHERE
\* id = old_key.id) with the values the handler assigned, whatever the row
\* holds by now; db.commit().
DeactivateOld(r) ==
    /\ rot[r].pc = "deactivate"
    /\ keys' = [keys EXCEPT ![rot[r].old_key] = MarkRotated(@, clock)]
    /\ clock' = clock + 1
    /\ rot' = Stepped(r, [rot EXCEPT ![r].pc = "activate", ![r].writes = @ + 1])
    /\ UNCHANGED <<reader, observed>>
    /\ UNCHANGED encVars
    /\ UNCHANGED wsVars

DeactivateOldFails(r) == DatabaseFails(r, "deactivate")

\* update_encryption_key_environment, lines 145-154, the background task of
\* lines 125-128: it prints the first characters of the new key material and
\* sleeps; the process's ENCRYPTION_KEY e is what it was.
UpdateEncryptionKeyEnvironment(e, new_key_material) == e

\* lines 121-137: the new key row is written active, db.commit(), the
\* background task is scheduled with the request's key material, and the
\* response is built from the two rows' key_version.
ActivateNew(r) ==
    /\ rot[r].pc = "activate"
    /\ keys' = [keys EXCEPT ![rot[r].new_key] = MarkActive(@)]
    /\ rot' = Stepped(r, [rot EXCEPT ![r] = Finish([@ EXCEPT !.writes = @ + 1],
                 KeyRotationResponse(keys[rot[r].old_key].key_version,
                                     keys[rot[r].new_key].key_version))])
    /\ env' = UpdateEncryptionKeyEnvironment(env, r)
    /\ UNCHANGED <<clock, reader, observed>>
    /\ UNCHANGED <<cipher, audit, pending, patients, outcome, bulk, upload>>
    /\ UNCHANGED wsVars

ActivateNewFails(r) == DatabaseFails(r, "activate")

\* What a read request hands to its caller.
Observation(kind, list, version) ==
    [kind |-> kind, key_list |-> list, active_key_version |-> version]

\* EncryptionKeyInfo of every row (lines 46-56).
KeyInfoList(ks) ==
    [i \in Ids(ks) |-> [key_version |-> ks[i].key_version, is_active |-> ks[i].is_active]]

\* encryption_health_check, check 1 (lines 442-457): one query for the active
\* key; the check fails ("none") when there is no such row.
EncryptionHealthCheck ==
    /\ reader.pc = "idle"
    /\ IF ActiveIds(keys) = {}
       THEN observed' = Observation("health", << >>, "none")
       ELSE \E k \in ActiveIds(keys) :
               observed' = Observation("health", << >>, keys[k].key_version)
    /\ UNCHANGED <<keys, clock, rot, reader>>
    /\ UNCHANGED encVars
    /\ UNCHANGED wsVars

\* list_encryption_keys, line 43: the first query reads all rows.
ListEncryptionKeys ==
    /\ reader.pc = "idle"
    /\ reader' = [pc |-> "listed", keys |-> KeyInfoList(keys)]
    /\ UNCHANGED <<keys, clock, rot, observed>>
    /\ UNCHANGED encVars
    /\ UNCHANGED wsVars

\* list_encryption_keys, lines 44-62: the second query reads the active key,
\* and the response is built: active_key_version is "none" without one.
ListActiveKey ==
    /\ reader.pc = "listed"
    /\ reader' = [pc |-> "idle", keys |-> << >>]
    /\ IF ActiveIds(keys) = {}
       THEN observed' = Observation("list", reader.keys, "none")
       ELSE \E k \in ActiveIds(keys) :
               observed' = Observation("list", reader.keys, keys[k].key_version)
    /\ UNCHANGED <<keys, clock, rot>>
    /\ UNCHANGED encVars
    /\ UNCHANGED wsVars

RotateNext ==
    \/ \E r \in Requests, v \in Versions, a \in Algorithms : RotateStart(r, v, a)
    \/ \E r \in Requests : CheckExisting(r)
    \/ \E r \in Requests : InsertKey(r)
    \/ \E r \in Requests : InsertKeyFails(r)
    \/ \E r \in Requests : CountAffected(r)
    \/ \E r \in Requests : CountAffectedFails(r)
    \/ \E r \in Requests : DeactivateOld(r)
    \/ \E r \in Requests : DeactivateOldFails(r)
    \/ \E r \in Requests : ActivateNew(r)
    \/ \E r \in Requests : ActivateNewFails(r)

\* The rotate requests, and read requests at any point between their steps.
ReadNext ==
    \/ \E r \in Requests, v \in Versions, a \in Algorithms : RotateStart(r, v, a)
    \/ \E r \in Requests : CheckExisting(r)
    \/ \E r \in Requests : InsertKey(r)
    \/ \E r \in Requests : InsertKeyFails(r)
    \/ \E r \in Requests : CountAffected(r)
    \/ \E r \in Requests : CountAffectedFails(r)
    \/ \E r \in Requests : DeactivateOld(r)
    \/ \E r \in Requests : DeactivateOldFails(r)
    \/ \E r \in Requests : ActivateNew(r)
    \/ \E r \in Requests : ActivateNewFails(r)
    \/ EncryptionHealthCheck
    \/ ListEncryptionKeys
    \/ ListActiveKey



\* ===================================================== key store: claims
Done(r) == rot[r].pc = "done"
Succeeded(r) == Done(r) /\ rot[r].response.status = 200
ActiveCount(ks) == Cardinality(ActiveIds(ks))
\* Requests r1 and r2 overlapped: each took a step while the other was in flight.
RanTogether(r1, r2) == r2 \in rot[r1].peers /\ r1 \in rot[r2].peers
\* No request but r has been issued.
OnlyRequest(r) == \A q \in Requests \ {r} : rot[q].pc = "idle"

\* C1: in every reachable state of the key store at most one EncryptionKey
\* row has is_active = true, also when rotate requests interleave.
C1_AtMostOneActiveKey == ActiveCount(keys) <= 1

\* C2: whatever a concurrent reader (health check, key list) is handed while
\* a rotation is in progress or after it shows exactly one active key; there
\* is no window with zero active keys.
C2_ReaderSeesExactlyOneActive ==
    /\ observed.kind = "health" => observed.active_key_version # "none"
    /\ observed.kind = "list" =>
          /\ observed.active_key_version # "none"
          /\ Cardinality({i \in DOMAIN observed.key_list :
                              observed.key_list[i].is_active}) = 1

\* C3: two rotate requests for the same new version that run concurrently from
\* a stable key store, the database answering every statement: exactly one
\* returns success, the other fails with the key-version-conflict error, and
\* exactly one key is active at the end.
C3_ConcurrentSameVersion ==
    \A r1, r2 \in Requests :
        ( /\ r1 # r2 /\ Done(r1) /\ Done(r2)
          /\ \A q \in Requests \ {r1, r2} : rot[q].pc = "idle"
          /\ RanTogether(r1, r2)
          /\ rot[r1].new_key_version = rot[r2].new_key_version
          /\ \A r \in {r1, r2} :
                /\ ActiveCount(rot[r].start_keys) = 1
                /\ IdsOfVersion(rot[r].start_keys, rot[r].new_key_version) = {}
                /\ rot[r].response # RotationFailedDatabase )
        => /\ \E w \in {r1, r2} : \A l \in {r1, r2} \ {w} :
                 Succeeded(w) /\ rot[l].response = KeyVersionConflict
           /\ ActiveCount(keys) = 1

\* The table after a complete rotation of table ks to version v: the new row
\* registered and the only active one, the old key inactive with rotated_at set.
FullyRotated(ks, v) ==
    /\ Len(keys) = Len(ks) + 1
    /\ keys[Len(keys)].key_version = v
    /\ ActiveIds(keys) = {Len(keys)}
    /\ \A i \in ActiveIds(ks) : keys[i].rotated_at # NULL

\* C4: a rotate request that fails after it started leaves the key store as
\* it was before the request or fully rotated.
C4_FailedRotationAllOrNothing ==
    \A r \in Requests :
        (Done(r) /\ rot[r].response.status = 500 /\ OnlyRequest(r))
        => \/ keys = rot[r].start_keys
           \/ FullyRotated(rot[r].start_keys, rot[r].new_key_version)

\* C5: a request whose new version already exists fails with the
\* key-version-conflict error, a request issued when no key is active fails
\* with the no-active-key error, and neither writes to the key table.
C5_RejectedRequests ==
    \A r \in Requests : Done(r) =>
        /\ IdsOfVersion(rot[r].start_keys, rot[r].new_key_version) # {}
              => rot[r].response = KeyVersionConflict /\ rot[r].writes = 0
        /\ ActiveIds(rot[r].start_keys) = {}
              => rot[r].response = NoActiveKey /\ rot[r].writes = 0

\* C6: a successful rotate(newVersion, algorithm) that started with
\* oldVersion as the one active key and ran without another request stepping
\* in: the response names oldVersion and newVersion, and when it returns the
\* only active key is newVersion and oldVersion is inactive with rotated_at set.
C6_SuccessfulRotation ==
    [][ \A r \in Requests :
          ( /\ ~Done(r) /\ rot'[r].pc = "done" /\ rot'[r].response.status = 200
            /\ rot'[r].peers = {}
            /\ ActiveCount(rot[r].start_keys) = 1 )
          => LET old == CHOOSE i \in ActiveIds(rot[r].start_keys) : TRUE
             IN  /\ rot'[r].response.old_key_version = rot[r].start_keys[old].key_version
                 /\ rot'[r].response.new_key_version = rot[r].new_key_version
                 /\ \A i \in ActiveIds(keys') :
                        keys'[i].key_version = rot[r].new_key_version
                 /\ ActiveCount(keys') = 1
                 /\ ~keys'[old].is_active
                 /\ keys'[old].rotated_at # NULL ]_vars

\* C6 witness: the rotation v1.0 -> v2.0 has returned, undisturbed.
C6_Witness ==
    \E r \in Requests :
        /\ Succeeded(r) /\ rot[r].peers = {}
        /\ rot[r].response.old_key_version = "v1.0"
        /\ rot[r].response.new_key_version = "v2.0"
        /\ ActiveIds(keys) = {2} /\ keys[1].rotated_at # NULL

\* C7: no step of any rotate request removes a key row or changes a row's
\* key_version, algorithm, key_hash or created_at; a request adds at most one
\* row (each row carries the hash of its request's fresh key material).
C7_KeyRowsImmutable ==
    [][ /\ Len(keys') \in {Len(keys), Len(keys) + 1}
        /\ \A i \in Ids(keys) :
              /\ keys'[i].key_version = keys[i].key_version
              /\ keys'[i].algorithm = keys[i].algorithm
              /\ keys'[i].key_hash = keys[i].key_hash
              /\ keys'[i].created_at = keys[i].created_at
        /\ \A r \in Requests :
              Cardinality({i \in Ids(keys') : keys'[i].key_hash = r}) <= 1 ]_vars

\* C7 witness: a rotation has written all three of its commits.
C7_Witness ==
    /\ Len(keys) = 2
    /\ keys[1].rotated_at # NULL /\ ~keys[1].is_active
    /\ keys[2].is_active
    /\ \E r \in Requests : Succeeded(r) /\ rot[r].writes = 3

\* ============================================== the encryption service
\* Python values. A str is its sequence of code points, bytes are a sequence
\* of 0..255, None is None. A Fernet token (a str, base64 of version, time,
\* iv, ciphertext and HMAC) is kept as what determines it: the key that
\* sealed it, its iv and the bytes sealed in it.
Str(chars) == [type |-> "str", chars |-> chars, key |-> "", iv |-> 0]
None == [type |-> "NoneType", chars |-> << >>, key |-> "", iv |-> 0]
Token(k, iv, bytes) == [type |-> "token", chars |-> bytes, key |-> k, iv |-> iv]

\* str.encode() as it would be with one byte for every code point.
Utf8EncodeOneByte(chars) == chars

\* str.encode(): UTF-8, one byte below U+0080, two bytes below U+0800.
RECURSIVE Utf8Encode(_)
Utf8Encode(chars) ==
    IF chars = << >> THEN << >>
    ELSE LET c == Head(chars)
         IN  (IF c < 128 THEN << c >>
              ELSE << 192 + (c \div 64), 128 + (c % 64) >>) \o Utf8Encode(Tail(chars))

\* bytes.decode(): [ok, chars]; not ok is UnicodeDecodeError.
RECURSIVE Utf8Decode(_)
Utf8Decode(bytes) ==
    IF bytes = << >> THEN [ok |-> TRUE, chars |-> << >>]
    ELSE LET b == Head(bytes)
         IN  IF b < 128
             THEN LET rest == Utf8Decode(Tail(bytes))
                  IN  [ok |-> rest.ok, chars |-> << b >> \o rest.chars]
             ELSE IF /\ b >= 194 /\ b < 224 /\ Len(bytes) >= 2
                     /\ bytes[2] >= 128 /\ bytes[2] < 192
             THEN LET rest == Utf8Decode(Tail(Tail(bytes)))
                  IN  [ok |-> rest.ok,
                       chars |-> << (b - 192) * 64 + (bytes[2] - 128) >> \o rest.chars]
             ELSE [ok |-> FALSE, chars |-> << >>]

\* Length in bytes of the key Fernet accepts (line 27 cuts the key to it).
FernetKeyLen == 32

\* An ENCRYPTION_KEY value: what its first 32 bytes are, and its length.
EnvKey(material, len) == [material |-> material, len |-> len]
Unset == EnvKey("", 0)

\* _load_active_key, lines 31-36.
LoadActiveKey(e) ==
    IF e.len = 0
    THEN [ok |-> FALSE, key |-> e, error |-> "Missing ENCRYPTION_KEY in environment"]
    ELSE [ok |-> TRUE, key |-> e, error |-> ""]

\* _get_cipher, lines 23-29: the cached cipher, or a Fernet over the first 32
\* bytes of the key, which Fernet refuses when they are fewer than 32.
\* [ok, cipher: the service's _cipher afterwards, error: str(e)]
GetCipher(c, e) ==
    IF c # "" THEN [ok |-> TRUE, cipher |-> c, error |-> ""]
    ELSE LET k == LoadActiveKey(e)
         IN  IF ~k.ok THEN [ok |-> FALSE, cipher |-> c, error |-> k.error]
             ELSE IF k.key.len < FernetKeyLen
             THEN [ok |-> FALSE, cipher |-> c,
                   error |-> "Fernet key must be 32 url-safe base64-encoded bytes."]
             ELSE [ok |-> TRUE, cipher |-> k.key.material, error |-> ""]

\* Line 83, self._get_cipher().encrypt(value.encode()).decode(): the cipher
\* is fetched first, then the argument is evaluated.
\* [ok, value, cipher, error: str(e)]
EncryptTransform(c, e, value, iv) ==
    LET g == GetCipher(c, e)
    IN  IF ~g.ok THEN [ok |-> FALSE, value |-> None, cipher |-> g.cipher, error |-> g.error]
        ELSE IF value.type = "NoneType"
        THEN [ok |-> FALSE, value |-> None, cipher |-> g.cipher,
              error |-> "'NoneType' object has no attribute 'encode'"]
        ELSE [ok |-> TRUE, value |-> Token(g.cipher, iv, Utf8Encode(value.chars)),
              cipher |-> g.cipher, error |-> ""]

\* Line 132, self._get_cipher().decrypt(encrypted_value.encode()).decode():
\* Fernet raises InvalidToken, whose str() is empty, for anything that is not
\* a token sealed with its key.
DecryptTransform(c, e, value) ==
    LET g == GetCipher(c, e)
    IN  IF ~g.ok THEN [ok |-> FALSE, value |-> None, cipher |-> g.cipher, error |-> g.error]
        ELSE IF value.type = "NoneType"
        THEN [ok |-> FALSE, value |-> None, cipher |-> g.cipher,
              error |-> "'NoneType' object has no attribute 'encode'"]
        ELSE IF value.type # "token" \/ value.key # g.cipher
        THEN [ok |-> FALSE, value |-> None, cipher |-> g.cipher, error |-> ""]
        ELSE LET d == Utf8Decode(value.chars)
             IN  IF ~d.ok
                 THEN [ok |-> FALSE, value |-> None, cipher |-> g.cipher,
                       error |-> "'utf-8' codec can't decode byte"]
                 ELSE [ok |-> TRUE, value |-> Str(d.chars), cipher |-> g.cipher,
                       error |-> ""]

\* EncryptionService.__init__, line 20.
current_key_version == "v1.0"

\* EncryptionAuditLog(...), lines 52-63 (ip_address, user_agent and timestamp
\* are carried through and left out here).
EncryptionAuditLog(operation, field_name, success, patient_id, user_id, error_message) ==
    [user_id |-> user_id, patient_id |-> patient_id, operation |-> operation,
     field_name |-> field_name, key_version |-> current_key_version,
     success |-> success, error_message |-> error_message]

\* The caller's database session: the committed tables and what is pending.
Session(a, pend, pat) == [audit |-> a, pending |-> pend, patients |-> pat]

\* _log_encryption_operation as it would be without its try/except.
LogEncryptionOperationRaises(db, row, accepts) ==
    IF accepts
    THEN [db |-> Session(Append(db.audit, row), 0, db.patients + db.pending),
          raised |-> FALSE, error |-> ""]
    ELSE [db |-> db, raised |-> TRUE, error |-> "OperationalError"]

\* _log_encryption_operation, lines 38-69: db.add(audit_log); db.commit(),
\* which commits all the session holds; when either raises, the exception is
\* logged and db.rollback() drops all the session holds. It never raises.
LogEncryptionOperation(db, row, accepts) ==
    IF accepts
    THEN [db |-> Session(Append(db.audit, row), 0, db.patients + db.pending),
          raised |-> FALSE, error |-> ""]
    ELSE [db |-> Session(db.audit, 0, db.patients), raised |-> FALSE, error |-> ""]

\* What a call hands back: a value, or an exception with its message.
Returned(db, c, v) == [db |-> db, cipher |-> c, raised |-> FALSE, value |-> v, error |-> ""]
Raised(db, c, msg) == [db |-> db, cipher |-> c, raised |-> TRUE, value |-> None, error |-> msg]

\* The except branch, as it would be if it logged and raised str(e) alone.
FieldFailedBareMessage(op, prefix, db, has_db, c, field_name, ctx, e, accepts) ==
    IF has_db
    THEN LET l == LogEncryptionOperation(db,
                     EncryptionAuditLog(op, field_name, FALSE, ctx.patient_id,
                                        ctx.user_id, e), accepts)
         IN  IF l.raised THEN Raised(l.db, c, l.error) ELSE Raised(l.db, c, e)
    ELSE Raised(db, c, e)

\* encrypt_field lines 100-118 and decrypt_field lines 149-167, the except
\* branch: error_msg is the prefix and str(e); with a session the failure is
\* logged; Exception(error_msg) is raised.
FieldFailed(op, prefix, db, has_db, c, field_name, ctx, e, accepts) ==
    IF has_db
    THEN LET l == LogEncryptionOperation(db,
                     EncryptionAuditLog(op, field_name, FALSE, ctx.patient_id,
                                        ctx.user_id, prefix \o e), accepts)
         IN  IF l.raised THEN Raised(l.db, c, l.error) ELSE Raised(l.db, c, prefix \o e)
    ELSE Raised(db, c, prefix \o e)

\* encrypt_field lines 82-98 and decrypt_field lines 131-147, the try block
\* after the transform t: with a session the success is logged, and the value
\* is returned; whatever is raised in the block goes to the except branch.
FieldCall(op, prefix, t, db, has_db, field_name, ctx, accepts) ==
    IF ~t.ok
    THEN FieldFailed(op, prefix, db, has_db, t.cipher, field_name, ctx, t.error, accepts)
    ELSE IF has_db
    THEN LET l == LogEncryptionOperation(db,
                     EncryptionAuditLog(op, field_name, TRUE, ctx.patient_id,
                                        ctx.user_id, ""), accepts)
         IN  IF l.raised
             THEN FieldFailed(op, prefix, l.db, has_db, t.cipher, field_name, ctx,
                              l.error, accepts)
             ELSE Returned(l.db, t.cipher, t.value)
    ELSE Returned(db, t.cipher, t.value)

\* EncryptionService.encrypt_field, lines 71-118.
EncryptFieldCall(db, has_db, c, e, value, field_name, ctx, accepts, iv) ==
    FieldCall("encrypt", "Encryption failed: ", EncryptTransform(c, e, value, iv),
              db, has_db, field_name, ctx, accepts)

\* EncryptionService.decrypt_field, lines 120-167.
DecryptFieldCall(db, has_db, c, e, value, field_name, ctx, accepts) ==
    FieldCall("decrypt", "Decryption failed: ", DecryptTransform(c, e, value),
              db, has_db, field_name, ctx, accepts)

\* --------------------------------------------------- calls of the service
\* The plaintexts: "", "a", "e" with an acute accent (two bytes in UTF-8),
\* and the two together.
Strings == {<< >>, <<97>>, <<233>>, <<97, 233>>}
\* Two of the initialisation vectors os.urandom may hand to Fernet.
IVs == {1, 2}
KeyMaterials == {"A", "B"}
\* What callers pass as plaintext: a str, or None (the str annotation of
\* line 73 is not enforced).
Plaintexts == {Str(x) : x \in Strings} \cup {None}
\* What callers pass as ciphertext: a token sealed under some key (of UTF-8
\* text, or of bytes that are not UTF-8), a str that is no token, or None.
Ciphertexts ==
    {Token(k, iv, Utf8Encode(x)) : k \in KeyMaterials, iv \in IVs, x \in Strings}
    \cup {Token(k, 1, <<233>>) : k \in KeyMaterials}
    \cup {Str(<<97>>), None}
\* What the process may find in ENCRYPTION_KEY: nothing, a key too short
\* for Fernet, or a key of which line 27 keeps the first 32 bytes.
EnvKeys == {Unset, EnvKey("A", 16), EnvKey("A", 44)}
FieldNames == {"first_name"}
\* patient_id and user_id of a call: absent, or those of an upload.
NoContext == [patient_id |-> "", user_id |-> 0]
Contexts == {[patient_id |-> "P001", user_id |-> 7]}

NoOutcome ==
    [op |-> "none", input |-> None, has_db |-> FALSE, accepts |-> FALSE,
     raised |-> FALSE, value |-> None, error |-> "", appended |-> 0,
     transform |-> [ok |-> FALSE, value |-> None, cipher |-> "", error |-> ""]]

\* The call's result res becomes the state; outcome keeps, for the claims,
\* what the call was and was given, the transform's own result t and the
\* number of audit rows the call appended.
Conclude(op, input, has_db, accepts, t, res) ==
    /\ cipher' = res.cipher
    /\ audit' = res.db.audit
    /\ pending' = res.db.pending
    /\ patients' = res.db.patients
    /\ outcome' = [op |-> op, input |-> input, has_db |-> has_db, accepts |-> accepts,
                   raised |-> res.raised, value |-> res.value, error |-> res.error,
                   appended |-> Len(res.db.audit) - Len(audit), transform |-> t]
    /\ UNCHANGED <<env, bulk, upload>>
    /\ UNCHANGED rotVars
    /\ UNCHANGED wsVars

\* encryption_service.encrypt_field(value, field_name[, db, patient_id,
\* user_id]): patients.py 232-243 with a session, files.py and the health
\* check without. accepts: whether the database takes the audit write (a
\* call without a session writes none, so for it only one answer is drawn).
EncryptField(value, field_name, has_db, ctx, accepts, iv) ==
    /\ Len(audit) < MaxAudit
    /\ has_db \/ accepts
    /\ Conclude("encrypt", value, has_db, accepts, EncryptTransform(cipher, env, value, iv),
                EncryptFieldCall(Session(audit, pending, patients), has_db, cipher, env,
                                 value, field_name, ctx, accepts, iv))

\* encryption_service.decrypt_field(encrypted_value, field_name[, db, ...]).
DecryptField(value, field_name, has_db, ctx, accepts) ==
    /\ Len(audit) < MaxAudit
    /\ has_db \/ accepts
    /\ Conclude("decrypt", value, has_db, accepts, DecryptTransform(cipher, env, value),
                DecryptFieldCall(Session(audit, pending, patients), has_db, cipher, env,
                                 value, field_name, ctx, accepts))

\* encrypt_field(value), lines 234-236: the legacy wrapper passes no session.
LegacyEncryptField(value, iv) ==
    EncryptField(value, "legacy", FALSE, NoContext, TRUE, iv)

\* decrypt_field(encrypted_value), lines 238-240.
LegacyDecryptField(value) ==
    DecryptField(value, "legacy", FALSE, NoContext, TRUE)

\* encrypt_field_with_audit(value, field_name, db, ...), lines 243-261.
EncryptFieldWithAudit(value, field_name, ctx, accepts, iv) ==
    EncryptField(value, field_name, TRUE, ctx, accepts, iv)

\* decrypt_field_with_audit(encrypted_value, field_name, db, ...), lines 263-281.
DecryptFieldWithAudit(value, field_name, ctx, accepts) ==
    DecryptField(value, field_name, TRUE, ctx, accepts)

\* The caller adds a row of its own to the session: db.add(patient).
CallerAdds ==
    /\ patients + pending < MaxPatients
    /\ pending' = pending + 1
    /\ UNCHANGED <<env, cipher, audit, patients, outcome, bulk, upload>>
    /\ UNCHANGED rotVars
    /\ UNCHANGED wsVars

\* The caller commits its session: db.commit() at the end of the upload.
CallerCommits ==
    /\ pending > 0
    /\ patients' = patients + pending
    /\ pending' = 0
    /\ UNCHANGED <<env, cipher, audit, outcome, bulk, upload>>
    /\ UNCHANGED rotVars
    /\ UNCHANGED wsVars

EncNext ==
    \/ \E v \in Plaintexts, f \in FieldNames, d \in BOOLEAN, c \in Contexts,
          ok \in BOOLEAN, iv \in IVs : EncryptField(v, f, d, c, ok, iv)
    \/ \E v \in Ciphertexts, f \in FieldNames, d \in BOOLEAN, c \in Contexts,
          ok \in BOOLEAN : DecryptField(v, f, d, c, ok)
    \/ \E v \in Plaintexts, iv \in IVs : LegacyEncryptField(v, iv)
    \/ \E v \in Ciphertexts : LegacyDecryptField(v)
    \/ \E v \in Plaintexts, f \in FieldNames, c \in Contexts, ok \in BOOLEAN, iv \in IVs :
          EncryptFieldWithAudit(v, f, c, ok, iv)
    \/ \E v \in Ciphertexts, f \in FieldNames, c \in Contexts, ok \in BOOLEAN :
          DecryptFieldWithAudit(v, f, c, ok)
    \/ CallerAdds
    \/ CallerCommits

\* The ENCRYPTION_KEY the process is started with beside the seeded key.
StartKey == EnvKey("A", 32)

\* ------------------------------------------------------ the bulk operations
\* fields_to_encrypt, line 181, in the order the loops take them.
PatientFields == <<"first_name", "last_name", "date_of_birth", "gender">>
\* The key a field has on the encrypted side (lines 185 and 210-215).
EncryptedName(field) == field \o "_encrypted"
\* A dict is a function on its keys; dict[key] = value:
DictSet(dict, key, value) ==
    [k \in DOMAIN dict \cup {key} |-> IF k = key THEN value ELSE dict[k]]
EmptyDict == << >>

\* bulk_encrypt_patient_data, lines 179-195: the loop from its i-th field on,
\* with encrypted_data as filled so far. Each field present in patient_data is
\* handed to encrypt_field; an exception of encrypt_field is not caught here,
\* so it ends the loop and the call.
RECURSIVE BulkEncrypt(_, _, _, _, _, _, _, _, _, _)
BulkEncrypt(i, db, has_db, c, e, patient_data, ctx, accepts, iv, encrypted_data) ==
    IF i > Len(PatientFields) THEN Returned(db, c, encrypted_data)
    ELSE LET field == PatientFields[i]
         IN  IF field \notin DOMAIN patient_data
             THEN BulkEncrypt(i + 1, db, has_db, c, e, patient_data, ctx, accepts, iv,
                              encrypted_data)
             ELSE LET r == EncryptFieldCall(db, has_db, c, e, patient_data[field],
                                            field, ctx, accepts, iv)
                  IN  IF r.raised THEN Raised(r.db, r.cipher, r.error)
                      ELSE BulkEncrypt(i + 1, r.db, has_db, r.cipher, e, patient_data,
                                       ctx, accepts, iv,
                                       DictSet(encrypted_data, EncryptedName(field), r.value))

\* bulk_decrypt_patient_data, lines 207-228, likewise: field_mappings in its
\* order, the input keyed by the encrypted names, the result by the plain ones.
RECURSIVE BulkDecrypt(_, _, _, _, _, _, _, _, _)
BulkDecrypt(i, db, has_db, c, e, encrypted_patient_data, ctx, accepts, decrypted_data) ==
    IF i > Len(PatientFields) THEN Returned(db, c, decrypted_data)
    ELSE LET plain_field == PatientFields[i]
             encrypted_field == EncryptedName(plain_field)
         IN  IF encrypted_field \notin DOMAIN encrypted_patient_data
             THEN BulkDecrypt(i + 1, db, has_db, c, e, encrypted_patient_data, ctx,
                              accepts, decrypted_data)
             ELSE LET r == DecryptFieldCall(db, has_db, c, e,
                                            encrypted_patient_data[encrypted_field],
                                            plain_field, ctx, accepts)
                  IN  IF r.raised THEN Raised(r.db, r.cipher, r.error)
                      ELSE BulkDecrypt(i + 1, r.db, has_db, r.cipher, e,
                                       encrypted_patient_data, ctx, accepts,
                                       DictSet(decrypted_data, plain_field, r.value))

\* The dicts callers pass: any of the four fields present or not, each value
\* one that its field call takes or one on which it raises.
Dicts(names, values) == UNION {[present -> values] : present \in SUBSET names}
PlainFieldNames == {PatientFields[i] : i \in DOMAIN PatientFields}
PatientDicts == Dicts(PlainFieldNames, {Str(<<97>>), None})
EncryptedPatientDicts ==
    Dicts({EncryptedName(f) : f \in PlainFieldNames},
          {Token(StartKey.material, 1, Utf8Encode(<<97>>)), Str(<<97>>)})

NoBulk ==
    [op |-> "none", data |-> EmptyDict, has_db |-> FALSE, accepts |-> FALSE,
     raised |-> FALSE, result |-> EmptyDict, rows |-> << >>]

\* The call's result res becomes the state; bulk keeps, for the claims, what
\* the call was given, what it returned and the audit rows it appended.
BulkConclude(op, data, has_db, accepts, res) ==
    /\ cipher' = res.cipher
    /\ audit' = res.db.audit
    /\ pending' = res.db.pending
    /\ patients' = res.db.patients
    /\ bulk' = [op |-> op, data |-> data, has_db |-> has_db, accepts |-> accepts,
                raised |-> res.raised,
                result |-> IF res.raised THEN EmptyDict ELSE res.value,
                rows |-> SubSeq(res.db.audit, Len(audit) + 1, Len(res.db.audit))]
    /\ UNCHANGED <<env, outcome, upload>>
    /\ UNCHANGED rotVars
    /\ UNCHANGED wsVars

\* encryption_service.bulk_encrypt_patient_data(patient_data[, db, ...]).
BulkEncryptPatientData(patient_data, has_db, ctx, accepts, iv) ==
    /\ Len(audit) < MaxBulkAudit
    /\ has_db \/ accepts
    /\ BulkConclude("encrypt", patient_data, has_db, accepts,
                    BulkEncrypt(1, Session(audit, pending, patients), has_db, cipher, env,
                                patient_data, ctx, accepts, iv, EmptyDict))

\* encryption_service.bulk_decrypt_patient_data(encrypted_patient_data[, db, ...]).
BulkDecryptPatientData(encrypted_patient_data, has_db, ctx, accepts) ==
    /\ Len(audit) < MaxBulkAudit
    /\ has_db \/ accepts
    /\ BulkConclude("decrypt", encrypted_patient_data, has_db, accepts,
                    BulkDecrypt(1, Session(audit, pending, patients), has_db, cipher, env,
                                encrypted_patient_data, ctx, accepts, EmptyDict))

BulkNext ==
    \/ \E d \in PatientDicts, db \in BOOLEAN, c \in Contexts, ok \in BOOLEAN, iv \in IVs :
          BulkEncryptPatientData(d, db, c, ok, iv)
    \/ \E d \in EncryptedPatientDicts, db \in BOOLEAN, c \in Contexts, ok \in BOOLEAN :
          BulkDecryptPatientData(d, db, c, ok)

\* ================================================ the connection manager
\* The websockets, named by the order in which the endpoints accept them.
Handles == 1..MaxHandles
\* get_user_from_token: the users that hold a token, each with its role.
Users == {[id |-> 1, role_name |-> "Admin"], [id |-> 2, role_name |-> "Manager"]}
NoUser == [id |-> 0, role_name |-> ""]
\* The connection_id query parameter: absent, or a string the client chose.
NoConnectionId == ""
ClientConnectionIds == {"k1"}
\* str(uuid.uuid4()), line 48: fresh for every connection.
Uuid4(websocket) == "uuid_" \o ToString(websocket)
\* str.lower() on the role names.
Lower(role) ==
    CASE role = "Admin" -> "admin" [] role = "Manager" -> "manager" [] OTHER -> role
\* The room names of lines 67-68, and those of the subscriptions.
UserRoom(user_id) == "user_" \o ToString(user_id)
RoleRoom(user_role) == "role_" \o Lower(user_role)
SubscriberRooms == {"audit_subscribers", "health_subscribers"}
RoomNames ==
    {UserRoom(u.id) : u \in Users} \cup {RoleRoom(u.role_name) : u \in Users}
    \cup SubscriberRooms \cup {"no_such_room"}
\* MessageType, lines 12-25: the message of line 71, and the others.
CONNECTION_ACK == "connection_ack"
HEARTBEAT == "heartbeat"
NOTIFICATION == "notification"
ERROR == "error"
SYSTEM_HEALTH == "system_health"
AUDIT_LOG == "audit_log"

\* del dict[key]
DictDel(dict, key) == [k \in DOMAIN dict \ {key} |-> dict[k]]
\* x in list
InList(list, x) == \E i \in DOMAIN list : list[i] = x
\* list.remove as it would be if it emptied the list.
ListCleared(list, x) == << >>
\* list.remove(x): the list without the first x (ValueError without any x:
\* the list is then as it was).
RECURSIVE ListRemove(_, _)
ListRemove(list, x) ==
    IF list = << >> THEN << >>
    ELSE IF Head(list) = x THEN Tail(list)
    ELSE << Head(list) >> \o ListRemove(Tail(list), x)
\* A set in some order of iteration.
RECURSIVE SetToSeq(_)
SetToSeq(set) ==
    IF set = {} THEN << >>
    ELSE LET x == CHOOSE y \in set : TRUE IN << x >> \o SetToSeq(set \ {x})

\* The four maps of the manager, lines 30-38.
ConnectionManager(ac, md, rm, ids) ==
    [active_connections |-> ac, connection_metadata |-> md, rooms |-> rm,
     connection_ids |-> ids]
Manager == ConnectionManager(active_connections, connection_metadata, rooms, connection_ids)

\* join_room, lines 117-121.
JoinRoomIn(m, websocket, room_name) ==
    [m EXCEPT !.rooms =
        DictSet(@, room_name,
                (IF room_name \in DOMAIN @ THEN @[room_name] ELSE {}) \cup {websocket})]

\* leave_room, lines 123-128: a room left empty is deleted.
LeaveRoomIn(m, websocket, room_name) ==
    IF room_name \notin DOMAIN m.rooms THEN m
    ELSE LET left == m.rooms[room_name] \ {websocket}
         IN  [m EXCEPT !.rooms = IF left = {} THEN DictDel(@, room_name)
                                 ELSE DictSet(@, room_name, left)]

\* disconnect, lines 91-115: nothing for a websocket without metadata;
\* otherwise the websocket is removed from its user's list (the user's entry
\* is deleted with its last websocket), discarded from every room (the rooms
\* stay), and its metadata and the entry of its connection id are deleted.
DisconnectIn(m, websocket) ==
    IF websocket \notin DOMAIN m.connection_metadata THEN m
    ELSE LET user_id == m.connection_metadata[websocket].user_id
             connection_id == m.connection_metadata[websocket].connection_id
         IN  ConnectionManager(
                 IF user_id \in DOMAIN m.active_connections
                 THEN LET left == ListRemove(m.active_connections[user_id], websocket)
                      IN  IF left = << >> THEN DictDel(m.active_connections, user_id)
                          ELSE DictSet(m.active_connections, user_id, left)
                 ELSE m.active_connections,
                 DictDel(m.connection_metadata, websocket),
                 [r \in DOMAIN m.rooms |-> m.rooms[r] \ {websocket}],
                 DictDel(m.connection_ids, connection_id))

\* list.remove raises ValueError in disconnect (line 100): the websocket has
\* metadata and its user a list, without the websocket in it.
DisconnectRaises(m, websocket) ==
    /\ websocket \in DOMAIN m.connection_metadata
    /\ LET user_id == m.connection_metadata[websocket].user_id
       IN  /\ user_id \in DOMAIN m.active_connections
           /\ ~InList(m.active_connections[user_id], websocket)

\* The cleanup as it would be if the collected websockets were left alone.
CleanupSkipped(m, disconnected_connections) == m

\* The cleanup loops of lines 157-158, 175-176 and 200-201.
RECURSIVE DisconnectAll(_, _)
DisconnectAll(m, disconnected_connections) ==
    IF disconnected_connections = << >> THEN m
    ELSE DisconnectAll(DisconnectIn(m, Head(disconnected_connections)),
                       Tail(disconnected_connections))

\* Whether one of the disconnects of the cleanup loop raises.
RECURSIVE DisconnectAllRaises(_, _)
DisconnectAllRaises(m, disconnected_connections) ==
    IF disconnected_connections = << >> THEN FALSE
    ELSE \/ DisconnectRaises(m, Head(disconnected_connections))
         \/ DisconnectAllRaises(DisconnectIn(m, Head(disconnected_connections)),
                                Tail(disconnected_connections))

\* is_user_connected, lines 215-217.
IsUserConnected(m, user_id) ==
    user_id \in DOMAIN m.active_connections /\ Len(m.active_connections[user_id]) > 0

\* Nothing is on the wire.
NoneDelivered == [h \in Handles |-> {}]
\* websocket.send_text on an open transport: the message is on the wire.
SendText(dl, websocket, message) == [dl EXCEPT ![websocket] = @ \cup {message}]

\* The send loops of lines 146-154, 164-172 and 189-197 from the i-th target
\* on: a target whose client_state is CONNECTED is sent the message; one
\* whose state is not, or whose send_text raises, is put on the list.
\* [delivered, disconnected_connections]
RECURSIVE SendLoop(_, _, _, _, _)
SendLoop(targets, i, message, dl, disconnected_connections) ==
    IF i > Len(targets)
    THEN [delivered |-> dl, disconnected_connections |-> disconnected_connections]
    ELSE LET connection == targets[i]
         IN  IF client_state[connection] = "open"
             THEN SendLoop(targets, i + 1, message, SendText(dl, connection, message),
                           disconnected_connections)
             ELSE SendLoop(targets, i + 1, message, dl,
                           Append(disconnected_connections, connection))

\* send_personal_message, lines 130-140: sent on an open transport; the
\* websocket is disconnected when its state is not CONNECTED or send_text
\* raises; only that disconnect can
\* raise out of the call. [manager, delivered, raised]
SendPersonalMessageIn(m, dl, message, websocket) ==
    IF client_state[websocket] = "open"
    THEN [manager |-> m, delivered |-> SendText(dl, websocket, message), raised |-> FALSE]
    ELSE [manager |-> DisconnectIn(m, websocket), delivered |-> dl,
          raised |-> DisconnectRaises(m, websocket)]


\* connect, lines 40-80 (the endpoint has accepted the websocket): the
\* websocket is appended to its user's list and entered in the id index and
\* the metadata, joins its user's and its role's room, and is sent the
\* acknowledgment; what lines 82-89 catch is raised again.
\* [manager, delivered, raised]
ConnectIn(m, dl, websocket, user_id, user_role, connection_id) ==
    LET id == IF connection_id = NoConnectionId THEN Uuid4(websocket) ELSE connection_id
        registered ==
            ConnectionManager(
                DictSet(m.active_connections, user_id,
                        Append(IF user_id \in DOMAIN m.active_connections
                               THEN m.active_connections[user_id] ELSE << >>, websocket)),
                DictSet(m.connection_metadata, websocket,
                        [user_id |-> user_id, user_role |-> user_role,
                         connection_id |-> id]),
                m.rooms,
                DictSet(m.connection_ids, id, websocket))
        joined == JoinRoomIn(JoinRoomIn(registered, websocket, UserRoom(user_id)),
                             websocket, RoleRoom(user_role))
    IN  SendPersonalMessageIn(joined, dl, CONNECTION_ACK, websocket)

\* ------------------------------------------- the manager's callers
\* An endpoint before its websocket exists.
NoEndpoint ==
    [pc |-> "none", user_data |-> NoUser, connection_id |-> NoConnectionId, path |-> ""]
\* A send_to_user call that other tasks may overtake while it awaits
\* send_text: where it is ("idle": no send is running), its
\* arguments, whether the list it iterates is still the one in the map (a
\* list that disconnect has deleted from the map is empty and stays so),
\* the number of connections its iterator has yielded, the connection it
\* is sending to, its disconnected_connections, the open connections the
\* user's list held when the call began, those it has tried, and those
\* that have the message. A send_to_room call has its room and the copy
\* of the room's set besides.
SendToUserCall(pc, message, user_id, live, i, connection, disconnected_connections, present, attempted, reached) ==
    [pc |-> pc, message |-> message, user_id |-> user_id, live |-> live, i |-> i,
     connection |-> connection, disconnected_connections |-> disconnected_connections,
     present |-> present, attempted |-> attempted, reached |-> reached,
     room_name |-> "", copy |-> << >>]
NoSender == SendToUserCall("idle", "", 0, FALSE, 0, 0, << >>, {}, {}, {})
\* The call after another task has changed the user lists into ac: it has
\* lost its list when the user's entry is gone.
Overtaken(snd, ac) ==
    IF snd.pc = "sending" /\ snd.user_id \notin DOMAIN ac THEN [snd EXCEPT !.live = FALSE]
    ELSE snd
\* The manager call that ended last: its arguments, the websockets it handed
\* to disconnect, and whether it raised.
ManagerCall(op, websocket, user_id, room_name, message, cleaned, raised) ==
    [op |-> op, websocket |-> websocket, user_id |-> user_id, room_name |-> room_name,
     message |-> message, cleaned |-> cleaned, raised |-> raised]
NoCall == ManagerCall("none", 0, 0, "", "", {}, FALSE)

\* The manager's maps become those of m.
Becomes(m) ==
    /\ active_connections' = m.active_connections
    /\ connection_metadata' = m.connection_metadata
    /\ rooms' = m.rooms
    /\ connection_ids' = m.connection_ids

\* websocket_endpoint, lines 62-70 of websockets.py (admin endpoint: 245-252):
\* the websocket is accepted and its token yields the user. Websockets are
\* numbered in the order they are accepted.
Accept(websocket, user, connection_id) ==
    /\ endpoint[websocket].pc = "none"
    /\ websocket > 1 => endpoint[websocket - 1].pc # "none"
    /\ endpoint' = [endpoint EXCEPT ![websocket] =
                       [pc |-> "accepted", user_data |-> user,
                        connection_id |-> connection_id, path |-> "/ws"]]
    /\ client_state' = [client_state EXCEPT ![websocket] = "open"]
    /\ UNCHANGED <<active_connections, connection_metadata, rooms, connection_ids,
                   delivered, wsop, sender>>
    /\ UNCHANGED <<rotVars, encVars>>

\* The client goes away: client_state is DISCONNECTED.
TransportCloses(websocket) ==
    /\ client_state[websocket] = "open"
    /\ client_state' = [client_state EXCEPT ![websocket] = "closed"]
    /\ UNCHANGED <<active_connections, connection_metadata, rooms, connection_ids,
                   delivered, wsop, sender, endpoint>>
    /\ UNCHANGED <<rotVars, encVars>>

\* The connection breaks: client_state is still CONNECTED, send_text raises.
TransportBreaks(websocket) ==
    /\ client_state[websocket] = "open"
    /\ client_state' = [client_state EXCEPT ![websocket] = "broken"]
    /\ UNCHANGED <<active_connections, connection_metadata, rooms, connection_ids,
                   delivered, wsop, sender, endpoint>>
    /\ UNCHANGED <<rotVars, encVars>>

\* connection_manager.connect(websocket, user_data["id"], user_data["role_name"],
\* connection_id), line 73 of websockets.py.
Connect(websocket) ==
    /\ endpoint[websocket].pc = "accepted"
    /\ endpoint[websocket].path = "/ws"
    /\ LET user == endpoint[websocket].user_data
           c == ConnectIn(Manager, NoneDelivered, websocket, user.id, user.role_name,
                          endpoint[websocket].connection_id)
       IN  /\ Becomes(c.manager)
           /\ delivered' = c.delivered
           /\ wsop' = ManagerCall("connect", websocket, user.id, "", CONNECTION_ACK,
                                  IF client_state[websocket] = "open" THEN {}
                                  ELSE {websocket}, c.raised)
    /\ endpoint' = [endpoint EXCEPT ![websocket].pc = "loop"]
    /\ sender' = Overtaken(sender, active_connections')
    /\ UNCHANGED client_state
    /\ UNCHANGED <<rotVars, encVars>>

\* connection_manager.disconnect(websocket): lines 102 and 112 of
\* websockets.py when the endpoint's receive loop ends, or once more after.
Disconnect(websocket) ==
    /\ endpoint[websocket].pc \in {"loop", "done"}
    /\ Becomes(DisconnectIn(Manager, websocket))
    /\ wsop' = ManagerCall("disconnect", websocket, 0, "", "", {websocket},
                           DisconnectRaises(Manager, websocket))
    /\ endpoint' = [endpoint EXCEPT ![websocket].pc = "done"]
    /\ delivered' = NoneDelivered
    /\ sender' = Overtaken(sender, active_connections')
    /\ UNCHANGED client_state
    /\ UNCHANGED <<rotVars, encVars>>

\* connection_manager.join_room(websocket, room): lines 130-131 and 144-145 of
\* websockets.py, for an endpoint in its loop whose user is an Admin.
JoinRoom(websocket, room_name) ==
    /\ endpoint[websocket].pc = "loop"
    /\ endpoint[websocket].user_data.role_name = "Admin"
    /\ Becomes(JoinRoomIn(Manager, websocket, room_name))
    /\ wsop' = ManagerCall("join_room", websocket, 0, room_name, "", {}, FALSE)
    /\ delivered' = NoneDelivered
    /\ UNCHANGED <<client_state, sender, endpoint>>
    /\ UNCHANGED <<rotVars, encVars>>

\* connection_manager.leave_room(websocket, room).
LeaveRoom(websocket, room_name) ==
    /\ endpoint[websocket].pc = "loop"
    /\ Becomes(LeaveRoomIn(Manager, websocket, room_name))
    /\ wsop' = ManagerCall("leave_room", websocket, 0, room_name, "", {}, FALSE)
    /\ delivered' = NoneDelivered
    /\ UNCHANGED <<client_state, sender, endpoint>>
    /\ UNCHANGED <<rotVars, encVars>>

\* connection_manager.send_personal_message(message, websocket): the
\* endpoint's answers and heartbeats, lines 96 and 123 of websockets.py.
SendPersonalMessage(websocket) ==
    /\ endpoint[websocket].pc = "loop"
    /\ endpoint[websocket].path = "/ws"
    /\ LET r == SendPersonalMessageIn(Manager, NoneDelivered, HEARTBEAT, websocket)
       IN  /\ Becomes(r.manager)
           /\ delivered' = r.delivered
           /\ wsop' = ManagerCall("send_personal_message", websocket, 0, "", HEARTBEAT,
                                  IF client_state[websocket] = "open" THEN {}
                                  ELSE {websocket}, r.raised)
    /\ UNCHANGED <<client_state, sender, endpoint>>
    /\ UNCHANGED <<rotVars, encVars>>

\* A send over targets with no other task scheduled while it awaits: the
\* loop, then the cleanup.
SendAll(op, targets, user_id, room_name) ==
    /\ LET l == SendLoop(targets, 1, NOTIFICATION, NoneDelivered, << >>)
       IN  /\ Becomes(DisconnectAll(Manager, l.disconnected_connections))
           /\ delivered' = l.delivered
           /\ wsop' = ManagerCall(op, 0, user_id, room_name, NOTIFICATION,
                                  {l.disconnected_connections[i] :
                                      i \in DOMAIN l.disconnected_connections},
                                  DisconnectAllRaises(Manager, l.disconnected_connections))
    /\ UNCHANGED <<client_state, sender, endpoint>>
    /\ UNCHANGED <<rotVars, encVars>>

\* send_to_user, lines 142-158.
SendToUser(user_id) ==
    /\ sender.pc = "idle"
    /\ SendAll("send_to_user",
               IF user_id \in DOMAIN active_connections THEN active_connections[user_id]
               ELSE << >>, user_id, "")

\* send_to_room as it would be without the test of line 162: KeyError for
\* a room that is not in the map.
SendToRoomUnguarded(room_name) ==
    /\ sender.pc = "idle"
    /\ IF room_name \in DOMAIN rooms
       THEN SendAll("send_to_room", SetToSeq(rooms[room_name]), 0, room_name)
       ELSE /\ wsop' = ManagerCall("send_to_room", 0, 0, room_name, NOTIFICATION, {}, TRUE)
            /\ delivered' = NoneDelivered
            /\ UNCHANGED <<active_connections, connection_metadata, rooms, connection_ids,
                           client_state, sender, endpoint>>
            /\ UNCHANGED <<rotVars, encVars>>

\* send_to_room, lines 160-176: over a copy of the room's set.
SendToRoom(room_name) ==
    /\ sender.pc = "idle"
    /\ SendAll("send_to_room",
               IF room_name \in DOMAIN rooms THEN SetToSeq(rooms[room_name]) ELSE << >>,
               0, room_name)

\* The lists of all users, one after the other (lines 184-186).
RECURSIVE Extend(_, _)
Extend(ac, user_ids) ==
    IF user_ids = << >> THEN << >>
    ELSE ac[Head(user_ids)] \o Extend(ac, Tail(user_ids))

\* broadcast_to_all, lines 182-201.
BroadcastToAll ==
    /\ sender.pc = "idle"
    /\ SendAll("broadcast_to_all",
               Extend(active_connections, SetToSeq(DOMAIN active_connections)), 0, "")

\* The loop of send_to_user, lines 146-154, from the point where its
\* iterator has yielded i connections of the list up to its next await of
\* send_text, or to its end: a connection whose client_state is not
\* CONNECTED goes on the list without an await.
\* [pc, i, connection, disconnected_connections, attempted]
RECURSIVE SendToUserRun(_, _, _, _)
SendToUserRun(connections, i, disconnected_connections, attempted) ==
    IF i >= Len(connections)
    THEN [pc |-> "cleanup", i |-> i, connection |-> 0,
          disconnected_connections |-> disconnected_connections, attempted |-> attempted]
    ELSE LET connection == connections[i + 1]
         IN  IF client_state[connection] = "closed"
             THEN SendToUserRun(connections, i + 1,
                                Append(disconnected_connections, connection),
                                attempted \cup {connection})
             ELSE [pc |-> "sending", i |-> i + 1, connection |-> connection,
                   disconnected_connections |-> disconnected_connections,
                   attempted |-> attempted \cup {connection}]

\* The call goes on from the state run of its loop: it awaits the next
\* send_text, or does its cleanup (lines 156-158) and returns.
SendToUserGoesOn(message, user_id, live, present, reached, run) ==
    IF run.pc = "sending"
    THEN /\ sender' = SendToUserCall("sending", message, user_id, live, run.i,
                                     run.connection, run.disconnected_connections,
                                     present, run.attempted, reached)
         /\ UNCHANGED <<active_connections, connection_metadata, rooms, connection_ids,
                        delivered, wsop>>
    ELSE /\ sender' = SendToUserCall("idle", message, user_id, FALSE, run.i, 0,
                                     run.disconnected_connections, present,
                                     run.attempted, reached)
         /\ Becomes(DisconnectAll(Manager, run.disconnected_connections))
         /\ delivered' = [h \in Handles |-> IF h \in reached THEN {message} ELSE {}]
         /\ wsop' = ManagerCall("send_to_user", 0, user_id, "", message,
                                {run.disconnected_connections[i] :
                                    i \in DOMAIN run.disconnected_connections},
                                DisconnectAllRaises(Manager, run.disconnected_connections))

\* send_to_user is called, lines 142-158, and runs to its first await of
\* send_text or to its end.
SendToUserStarts(user_id) ==
    /\ sender.pc = "idle"
    /\ LET connections == IF user_id \in DOMAIN active_connections
                          THEN active_connections[user_id] ELSE << >>
       IN  SendToUserGoesOn(NOTIFICATION, user_id, TRUE,
                            {connections[i] : i \in DOMAIN connections}
                                \cap {h \in Handles : client_state[h] = "open"},
                            {}, SendToUserRun(connections, 0, << >>, {}))
    /\ UNCHANGED <<client_state, endpoint>>
    /\ UNCHANGED <<rotVars, encVars>>

\* The send_text the call awaits ends, with the message sent or with an
\* exception, and the loop goes on over the list as it is now.
SendToUserResumes ==
    /\ sender.pc = "sending"
    /\ LET sent == client_state[sender.connection] = "open"
           connections == IF sender.live THEN active_connections[sender.user_id]
                          ELSE << >>
       IN  SendToUserGoesOn(
               sender.message, sender.user_id, sender.live, sender.present,
               IF sent THEN sender.reached \cup {sender.connection} ELSE sender.reached,
               SendToUserRun(connections, sender.i,
                             IF sent THEN sender.disconnected_connections
                             ELSE Append(sender.disconnected_connections,
                                         sender.connection),
                             sender.attempted))
    /\ UNCHANGED <<client_state, endpoint>>
    /\ UNCHANGED <<rotVars, encVars>>

\* send_to_user with the tasks that may run while it awaits: endpoints
\* accepting, connecting and disconnecting websockets.
SendNext ==
    \/ \E h \in Handles, u \in Users : Accept(h, u, NoConnectionId)
    \/ \E h \in Handles : TransportCloses(h)
    \/ \E h \in Handles : TransportBreaks(h)
    \/ \E h \in Handles : Connect(h)
    \/ \E h \in Handles : Disconnect(h)
    \/ \E u \in Users : SendToUserStarts(u.id)
    \/ SendToUserResumes

\* ------------------------------------------- the endpoints' handlers
\* The types of the messages clients send: those of handle_websocket_message,
\* those of handle_admin_message, and one that neither knows.
ClientMessageTypes ==
    {"ping", "subscribe_audit", "subscribe_health", "get_patient_count",
     "get_connection_stats", "get_live_audit", "trigger_health_check", "no_such_type"}
\* The types handle_websocket_message and handle_admin_message have a branch for.
GeneralMessageTypes ==
    {"ping", "subscribe_audit", "subscribe_health", "get_patient_count",
     "get_connection_stats"}
AdminMessageTypes == {"get_live_audit", "trigger_health_check"}

\* A handler that has sent nothing yet, the manager being m.
\* [manager, delivered, cleaned, raised]
Quiet(m) == [manager |-> m, delivered |-> NoneDelivered, cleaned |-> {}, raised |-> FALSE]
\* The handler calls send_personal_message(message, websocket) next.
Respond(r, message, websocket) ==
    LET s == SendPersonalMessageIn(r.manager, r.delivered, message, websocket)
    IN  [manager |-> s.manager, delivered |-> s.delivered,
         cleaned |-> r.cleaned \cup
                     (IF client_state[websocket] = "open" THEN {} ELSE {websocket}),
         raised |-> r.raised \/ s.raised]

\* send_current_health_status, lines 188-233 of websockets.py: the health
\* data, or an error message when collecting it raises.
SendCurrentHealthStatus(r, websocket, db_fails) ==
    Respond(r, IF db_fails THEN ERROR ELSE SYSTEM_HEALTH, websocket)

\* handle_websocket_message as it would be if the two subscriptions did
\* not look at the role.
HandleWebsocketMessageAnyRole(m, websocket, user_data, message_type, db_fails) ==
    CASE message_type = "ping" -> Respond(Quiet(m), "pong", websocket)
      [] message_type = "subscribe_audit" ->
            Respond(Quiet(JoinRoomIn(m, websocket, "audit_subscribers")),
                    "subscription_ack", websocket)
      [] message_type = "subscribe_health" ->
            SendCurrentHealthStatus(
                Respond(Quiet(JoinRoomIn(m, websocket, "health_subscribers")),
                        "subscription_ack", websocket),
                websocket, db_fails)
      [] message_type = "get_patient_count" ->
            IF user_data.role_name = "Manager"
            THEN Respond(Quiet(m), IF db_fails THEN ERROR ELSE "patient_count", websocket)
            ELSE Quiet(m)
      [] message_type = "get_connection_stats" ->
            IF user_data.role_name = "Admin"
            THEN Respond(Quiet(m), "connection_stats", websocket)
            ELSE Quiet(m)
      [] OTHER -> Respond(Quiet(m), ERROR, websocket)

\* handle_websocket_message, lines 115-186 of websockets.py. What the body
\* raises is answered with an error message (lines 182-186).
HandleWebsocketMessageIn(m, websocket, user_data, message_type, db_fails) ==
    CASE message_type = "ping" -> Respond(Quiet(m), "pong", websocket)
      [] message_type = "subscribe_audit" ->
            IF user_data.role_name = "Admin"
            THEN Respond(Quiet(JoinRoomIn(m, websocket, "audit_subscribers")),
                         "subscription_ack", websocket)
            ELSE Respond(Quiet(m), ERROR, websocket)
      [] message_type = "subscribe_health" ->
            IF user_data.role_name = "Admin"
            THEN SendCurrentHealthStatus(
                     Respond(Quiet(JoinRoomIn(m, websocket, "health_subscribers")),
                             "subscription_ack", websocket),
                     websocket, db_fails)
            ELSE Respond(Quiet(m), ERROR, websocket)
      [] message_type = "get_patient_count" ->
            IF user_data.role_name = "Manager"
            THEN Respond(Quiet(m), IF db_fails THEN ERROR ELSE "patient_count", websocket)
            ELSE Quiet(m)
      [] message_type = "get_connection_stats" ->
            IF user_data.role_name = "Admin"
            THEN Respond(Quiet(m), "connection_stats", websocket)
            ELSE Quiet(m)
      [] OTHER -> Respond(Quiet(m), ERROR, websocket)

\* handle_admin_message, lines 362-390 of websockets.py: two branches and
\* no else; what the query of get_live_audit raises leaves the handler.
HandleAdminMessageIn(m, websocket, message_type, db_fails) ==
    CASE message_type = "get_live_audit" ->
            IF db_fails THEN [Quiet(m) EXCEPT !.raised = TRUE]
            ELSE Respond(Quiet(m), "live_audit_data", websocket)
      [] message_type = "trigger_health_check" ->
            SendCurrentHealthStatus(Quiet(m), websocket, db_fails)
      [] OTHER -> Quiet(m)

\* admin_websocket_endpoint, lines 243-252 of websockets.py: the websocket
\* is accepted; a user who is not an Admin has it closed with code 4003.
AcceptAdmin(websocket, user) ==
    /\ endpoint[websocket].pc = "none"
    /\ websocket > 1 => endpoint[websocket - 1].pc # "none"
    /\ endpoint' = [endpoint EXCEPT ![websocket] =
                       [pc |-> IF user.role_name = "Admin" THEN "accepted" ELSE "done",
                        user_data |-> user, connection_id |-> NoConnectionId,
                        path |-> "/ws/admin"]]
    /\ client_state' = [client_state EXCEPT ![websocket] =
                           IF user.role_name = "Admin" THEN "open" ELSE "closed"]
    /\ UNCHANGED <<active_connections, connection_metadata, rooms, connection_ids,
                   delivered, wsop, sender>>
    /\ UNCHANGED <<rotVars, encVars>>

\* send_admin_dashboard_data, lines 286-360 of websockets.py: the dashboard,
\* or nothing when collecting it raises.
SendAdminDashboardData(r, websocket, db_fails) ==
    IF db_fails THEN r ELSE Respond(r, "admin_dashboard", websocket)

\* admin_websocket_endpoint, lines 254-263 of websockets.py: connect, the two
\* subscriber rooms, the first dashboard.
ConnectAdmin(websocket, db_fails) ==
    /\ endpoint[websocket].pc = "accepted"
    /\ endpoint[websocket].path = "/ws/admin"
    /\ LET user == endpoint[websocket].user_data
           c == ConnectIn(Manager, NoneDelivered, websocket, user.id, user.role_name,
                          NoConnectionId)
           joined == JoinRoomIn(JoinRoomIn(c.manager, websocket, "audit_subscribers"),
                                websocket, "health_subscribers")
           r == SendAdminDashboardData(
                    [manager |-> joined, delivered |-> c.delivered,
                     cleaned |-> IF client_state[websocket] = "open" THEN {}
                                 ELSE {websocket},
                     raised |-> c.raised], websocket, db_fails)
       IN  /\ Becomes(r.manager)
           /\ delivered' = r.delivered
           /\ wsop' = ManagerCall("admin_websocket_endpoint", websocket, user.id, "",
                                  "", r.cleaned, r.raised)
    /\ endpoint' = [endpoint EXCEPT ![websocket].pc = "loop"]
    /\ sender' = Overtaken(sender, active_connections')
    /\ UNCHANGED client_state
    /\ UNCHANGED <<rotVars, encVars>>

\* websocket_endpoint, lines 84-92 of websockets.py: a message arrives on a
\* websocket whose client has not closed it, and is handled.
HandleWebsocketMessage(websocket, message_type, db_fails) ==
    /\ endpoint[websocket].pc = "loop"
    /\ endpoint[websocket].path = "/ws"
    /\ client_state[websocket] # "closed"
    /\ LET r == HandleWebsocketMessageIn(Manager, websocket, endpoint[websocket].user_data,
                                         message_type, db_fails)
       IN  /\ Becomes(r.manager)
           /\ delivered' = r.delivered
           /\ wsop' = ManagerCall("handle_websocket_message", websocket,
                                  endpoint[websocket].user_data.id, "", message_type,
                                  r.cleaned, r.raised)
    /\ sender' = Overtaken(sender, active_connections')
    /\ UNCHANGED <<client_state, endpoint>>
    /\ UNCHANGED <<rotVars, encVars>>

\* admin_websocket_endpoint, lines 266-284 of websockets.py: a message
\* arrives and is handled; what the handler raises ends the endpoint with a
\* disconnect.
HandleAdminMessage(websocket, message_type, db_fails) ==
    /\ endpoint[websocket].pc = "loop"
    /\ endpoint[websocket].path = "/ws/admin"
    /\ client_state[websocket] # "closed"
    /\ LET r == HandleAdminMessageIn(Manager, websocket, message_type, db_fails)
       IN  /\ Becomes(IF r.raised THEN DisconnectIn(r.manager, websocket) ELSE r.manager)
           /\ delivered' = r.delivered
           /\ wsop' = ManagerCall("handle_admin_message", websocket,
                                  endpoint[websocket].user_data.id, "", message_type,
                                  r.cleaned, r.raised)
           /\ endpoint' = [endpoint EXCEPT ![websocket].pc =
                              IF r.raised THEN "done" ELSE "loop"]
    /\ sender' = Overtaken(sender, active_connections')
    /\ UNCHANGED client_state
    /\ UNCHANGED <<rotVars, encVars>>

\* The two endpoints with the messages of their clients.
EndpointsNext ==
    \/ \E h \in Handles, u \in Users : Accept(h, u, NoConnectionId)
    \/ \E h \in Handles, u \in Users : AcceptAdmin(h, u)
    \/ \E h \in Handles : TransportCloses(h)
    \/ \E h \in Handles : TransportBreaks(h)
    \/ \E h \in Handles : Connect(h)
    \/ \E h \in Handles, f \in BOOLEAN : ConnectAdmin(h, f)
    \/ \E h \in Handles, t \in ClientMessageTypes, f \in BOOLEAN :
          HandleWebsocketMessage(h, t, f)
    \/ \E h \in Handles, t \in ClientMessageTypes, f \in BOOLEAN :
          HandleAdminMessage(h, t, f)
    \/ \E h \in Handles : Disconnect(h)

\* ------------------------------------------- the periodic health updates
\* The orders in which the iteration of a set can yield its members.
Orders(S) ==
    {q \in [1..Cardinality(S) -> S] : \A i, j \in 1..Cardinality(S) : q[i] = q[j] => i = j}
\* The orders of the sets of websockets.
AllOrders == UNION {Orders(S) : S \in SUBSET Handles}

\* The loop of lines 402-403 of websockets.py over the set of the room
\* itself, from the i-th member on: the iterator raises RuntimeError when
\* the set no longer has the size it had at the start, also after the last
\* member; what a send raises leaves the loop as well.
RECURSIVE HealthLoop(_, _, _, _, _)
HealthLoop(order, i, used, r, db_fails) ==
    IF r.raised THEN r
    ELSE IF Cardinality(r.manager.rooms["health_subscribers"]) # used
         THEN [r EXCEPT !.raised = TRUE]
    ELSE IF i > Len(order) THEN r
    ELSE HealthLoop(order, i + 1, used,
                    SendCurrentHealthStatus(r, order[i], db_fails), db_fails)

\* The members the cycle iterates over.
HealthSubscribers ==
    IF "health_subscribers" \in DOMAIN rooms THEN rooms["health_subscribers"] ELSE {}

\* periodic_admin_updates, lines 393-407 of websockets.py: one cycle of the
\* task main.py starts at line 99. What the cycle raises is caught at line
\* 405 and the loop goes on.
PeriodicAdminUpdates(order, db_fails) ==
    /\ order \in Orders(HealthSubscribers)
    /\ LET r == IF "health_subscribers" \in DOMAIN rooms
                THEN HealthLoop(order, 1, Len(order), Quiet(Manager), db_fails)
                ELSE Quiet(Manager)
       IN  /\ Becomes(r.manager)
           /\ delivered' = r.delivered
           /\ wsop' = ManagerCall("periodic_admin_updates", 0, 0, "health_subscribers",
                                  SYSTEM_HEALTH, r.cleaned, r.raised)
    /\ sender' = Overtaken(sender, active_connections')
    /\ UNCHANGED <<client_state, endpoint>>
    /\ UNCHANGED <<rotVars, encVars>>

\* The endpoints with their subscribers and the task of the health updates.
HealthNext ==
    \/ \E h \in Handles, u \in Users : Accept(h, u, NoConnectionId)
    \/ \E h \in Handles, u \in Users : AcceptAdmin(h, u)
    \/ \E h \in Handles : TransportCloses(h)
    \/ \E h \in Handles : TransportBreaks(h)
    \/ \E h \in Handles : Connect(h)
    \/ \E h \in Handles, f \in BOOLEAN : ConnectAdmin(h, f)
    \/ \E h \in Handles, f \in BOOLEAN : HandleWebsocketMessage(h, "subscribe_health", f)
    \/ \E h \in Handles : Disconnect(h)
    \/ \E order \in AllOrders, f \in BOOLEAN : PeriodicAdminUpdates(order, f)

\* ------------------------------------------- the notifier
\* The events of WebSocketNotifier for the acting user, lines 249-332, and
\* those for the Admins, lines 334-360.
UserEvents ==
    {"upload_progress", "upload_complete", "upload_error",
     "patient_created", "patient_updated", "patient_deleted"}
AdminEvents == {AUDIT_LOG, SYSTEM_HEALTH}

\* notify_upload_progress, notify_upload_complete, notify_upload_error,
\* notify_patient_created, notify_patient_updated, notify_patient_deleted:
\* send_to_user(notification, user_id) is called and runs to its first
\* await of send_text or to its end.
NotifyUser(event, user_id) ==
    /\ sender.pc = "idle"
    /\ LET connections == IF user_id \in DOMAIN active_connections
                          THEN active_connections[user_id] ELSE << >>
       IN  SendToUserGoesOn(event, user_id, TRUE,
                            {connections[i] : i \in DOMAIN connections}
                                \cap {h \in Handles : client_state[h] = "open"},
                            {}, SendToUserRun(connections, 0, << >>, {}))
    /\ UNCHANGED <<client_state, endpoint>>
    /\ UNCHANGED <<rotVars, encVars>>

\* A send_to_room call: the room, the copy of its set in the order of the
\* iteration, and the websockets that are registered with the role of the
\* call and open when it begins.
SendToRoomCall(pc, message, room_name, copy, run, present, reached) ==
    [SendToUserCall(pc, message, 0, FALSE, run.i, run.connection,
                    run.disconnected_connections, present, run.attempted, reached)
     EXCEPT !.room_name = room_name, !.copy = copy]

\* send_to_room goes on from the state run of its loop over the copy (lines
\* 164-172): it awaits the next send_text, or does its cleanup (lines
\* 174-176) and returns.
SendToRoomGoesOn(message, room_name, copy, present, reached, run) ==
    IF run.pc = "sending"
    THEN /\ sender' = SendToRoomCall("room_sending", message, room_name, copy, run,
                                     present, reached)
         /\ UNCHANGED <<active_connections, connection_metadata, rooms, connection_ids,
                        delivered, wsop>>
    ELSE /\ sender' = SendToRoomCall("idle", message, room_name, copy, run, present,
                                     reached)
         /\ Becomes(DisconnectAll(Manager, run.disconnected_connections))
         /\ delivered' = [h \in Handles |-> IF h \in reached THEN {message} ELSE {}]
         /\ wsop' = ManagerCall("send_to_room", 0, 0, room_name, message,
                                {run.disconnected_connections[i] :
                                    i \in DOMAIN run.disconnected_connections},
                                DisconnectAllRaises(Manager, run.disconnected_connections))

\* The websockets registered with the role, their transports open.
OpenWithRole(role) ==
    {h \in DOMAIN connection_metadata :
        connection_metadata[h].user_role = role /\ client_state[h] = "open"}

\* broadcast_to_role as it would be with the role's name as it is given,
\* not in lower case.
BroadcastToRoleAsGiven(message, role, copy) ==
    /\ sender.pc = "idle"
    /\ copy \in Orders(IF "role_" \o role \in DOMAIN rooms THEN rooms["role_" \o role] ELSE {})
    /\ SendToRoomGoesOn(message, "role_" \o role, copy, OpenWithRole(role), {},
                        SendToUserRun(copy, 0, << >>, {}))
    /\ UNCHANGED <<client_state, endpoint>>
    /\ UNCHANGED <<rotVars, encVars>>

\* broadcast_to_role, lines 178-180, is send_to_room with the room of the
\* role (lines 160-176): nothing for a room that is not in the map;
\* otherwise the loop over the copy runs to its first await or to its end.
BroadcastToRole(message, role, copy) ==
    /\ sender.pc = "idle"
    /\ copy \in Orders(IF RoleRoom(role) \in DOMAIN rooms THEN rooms[RoleRoom(role)] ELSE {})
    /\ SendToRoomGoesOn(message, RoleRoom(role), copy, OpenWithRole(role), {},
                        SendToUserRun(copy, 0, << >>, {}))
    /\ UNCHANGED <<client_state, endpoint>>
    /\ UNCHANGED <<rotVars, encVars>>

\* notify_audit_event and notify_system_health, lines 334-360.
NotifyAdmins(event, copy) ==
    /\ event \in AdminEvents
    /\ BroadcastToRole(event, "Admin", copy)

\* The send_text that send_to_room awaits ends, with the message sent or
\* with an exception, and the loop goes on over the copy.
SendToRoomResumes ==
    /\ sender.pc = "room_sending"
    /\ LET sent == client_state[sender.connection] = "open"
       IN  SendToRoomGoesOn(
               sender.message, sender.room_name, sender.copy, sender.present,
               IF sent THEN sender.reached \cup {sender.connection} ELSE sender.reached,
               SendToUserRun(sender.copy, sender.i,
                             IF sent THEN sender.disconnected_connections
                             ELSE Append(sender.disconnected_connections,
                                         sender.connection),
                             sender.attempted))
    /\ UNCHANGED <<client_state, endpoint>>
    /\ UNCHANGED <<rotVars, encVars>>

\* The notifications for the acting user with the tasks that may run while
\* send_to_user awaits: the endpoints accepting, connecting, subscribing
\* and disconnecting.
NotifyUserNext ==
    \/ \E h \in Handles, u \in Users : Accept(h, u, NoConnectionId)
    \/ \E h \in Handles : TransportCloses(h)
    \/ \E h \in Handles : TransportBreaks(h)
    \/ \E h \in Handles : Connect(h)
    \/ \E h \in Handles : HandleWebsocketMessage(h, "subscribe_audit", FALSE)
    \/ \E h \in Handles : Disconnect(h)
    \/ \E e \in UserEvents, u \in Users : NotifyUser(e, u.id)
    \/ SendToUserResumes

\* The notifications for the Admins with the tasks that may run while
\* send_to_room awaits: the two endpoints accepting, connecting,
\* subscribing and disconnecting.
NotifyAdminsNext ==
    \/ \E h \in Handles, u \in Users : Accept(h, u, NoConnectionId)
    \/ \E h \in Handles, u \in Users : AcceptAdmin(h, u)
    \/ \E h \in Handles : TransportCloses(h)
    \/ \E h \in Handles : TransportBreaks(h)
    \/ \E h \in Handles : Connect(h)
    \/ \E h \in Handles : ConnectAdmin(h, FALSE)
    \/ \E h \in Handles, t \in {"subscribe_audit", "subscribe_health"} :
          HandleWebsocketMessage(h, t, FALSE)
    \/ \E h \in Handles : Disconnect(h)
    \/ \E e \in AdminEvents, copy \in AllOrders : NotifyAdmins(e, copy)
    \/ SendToRoomResumes

\* ------------------------------------------------------------- the upload
\* What a row of the uploaded file holds: the required data, data with a
\* required field empty, or the id of a patient the table already has.
RowKinds == {"valid", "missing", "exists"}
\* The frames read from a file: those of at most MaxRows rows.
Frames == UNION {[1..n -> RowKinds] : n \in 0..MaxRows}

\* FileUpload(...), lines 178-188, with the fields lines 285-288 set.
FileUpload(total_records, successful_records, failed_records, status) ==
    [total_records |-> total_records, successful_records |-> successful_records,
     failed_records |-> failed_records, status |-> status]
\* Patient(...), lines 249-259: the key version of the row.
Patient(encryption_key_version) == [encryption_key_version |-> encryption_key_version]

\* The upload request: where it is, its user, its frame, the number of rows
\* its loop has taken, its counters, how often each row taken was counted,
\* its file_upload row, the patients it has handed to db.add, and the status
\* of its response.
UploadRequest(pc, user_id, rows, index, successful_count, failed_count, counted, file_upload, created, response) ==
    [pc |-> pc, user_id |-> user_id, rows |-> rows, index |-> index,
     successful_count |-> successful_count, failed_count |-> failed_count,
     counted |-> counted, file_upload |-> file_upload, created |-> created,
     response |-> response]
NoUpload == UploadRequest("idle", 0, << >>, 0, 0, 0, << >>, FileUpload(0, 0, 0, ""), << >>, 0)

\* connection_manager.send_to_user(message, user_id) as the next call of a
\* request that has made the calls of n, no other task running meanwhile.
SendToUserIn(n, message, user_id) ==
    LET targets == IF user_id \in DOMAIN n.manager.active_connections
                   THEN n.manager.active_connections[user_id] ELSE << >>
        l == SendLoop(targets, 1, message, n.delivered, << >>)
    IN  [manager |-> DisconnectAll(n.manager, l.disconnected_connections),
         delivered |-> l.delivered,
         cleaned |-> n.cleaned \cup {l.disconnected_connections[i] :
                                        i \in DOMAIN l.disconnected_connections},
         raised |-> n.raised \/ DisconnectAllRaises(n.manager, l.disconnected_connections)]

\* connection_manager.broadcast_to_role(message, role), likewise.
BroadcastToRoleIn(n, message, role) ==
    LET targets == IF RoleRoom(role) \in DOMAIN n.manager.rooms
                   THEN SetToSeq(n.manager.rooms[RoleRoom(role)]) ELSE << >>
        l == SendLoop(targets, 1, message, n.delivered, << >>)
    IN  [manager |-> DisconnectAll(n.manager, l.disconnected_connections),
         delivered |-> l.delivered,
         cleaned |-> n.cleaned \cup {l.disconnected_connections[i] :
                                        i \in DOMAIN l.disconnected_connections},
         raised |-> n.raised \/ DisconnectAllRaises(n.manager, l.disconnected_connections)]

\* The except branch of the row as it would be without its counter.
RowFailsUncounted(u) == u

\* The except branch of the row, lines 270-273, and the two continues of
\* lines 221-230: the row is counted as failed.
RowFails(u) ==
    [u EXCEPT !.failed_count = @ + 1, !.counted[u.index] = @ + 1]

\* Lines 249-262: the patient is added to the session and the row is
\* counted as successful.
RowSucceeds(u) ==
    [u EXCEPT !.successful_count = @ + 1, !.counted[u.index] = @ + 1,
              !.created = Append(@, Patient("v1.0"))]

\* The four encrypt_field calls of lines 232-243 from the i-th on, each with
\* the request's session; the first that raises ends them.
RECURSIVE EncryptRow(_, _, _, _, _, _, _)
EncryptRow(db, c, e, i, ctx, accepts, iv) ==
    IF i > Len(PatientFields) THEN Returned(db, c, None)
    ELSE LET r == EncryptFieldCall(db, TRUE, c, e, Str(<<97>>), PatientFields[i], ctx,
                                   accepts[i], iv)
         IN  IF r.raised THEN r
             ELSE EncryptRow(r.db, r.cipher, e, i + 1, ctx, accepts, iv)

\* One turn of the loop of lines 198-273 for the request u with the session
\* db, the cipher c, the environment e and the notifications n made so far.
\* [db, cipher, notified, upload]
UploadRowIn(db, c, e, n, u, accepts, iv) ==
    LET taken == [u EXCEPT !.index = @ + 1, !.counted = Append(@, 0)]
        row == u.rows[taken.index]
        total_records == Len(u.rows)
        progress == IF u.index % 10 = 0 \/ u.index = total_records - 1
                    THEN SendToUserIn(n, "upload_progress", u.user_id) ELSE n
        ctx == [patient_id |-> "P001", user_id |-> u.user_id]
        enc == EncryptRow(db, c, e, 1, ctx, accepts, iv)
        created == SendToUserIn(progress, "patient_created", u.user_id)
    IN  IF progress.raised \/ row # "valid"
        THEN [db |-> db, cipher |-> c, notified |-> progress, upload |-> RowFails(taken)]
        ELSE IF enc.raised
        THEN [db |-> enc.db, cipher |-> enc.cipher, notified |-> progress,
              upload |-> RowFails(taken)]
        ELSE [db |-> Session(enc.db.audit, enc.db.pending + 1, enc.db.patients),
              cipher |-> enc.cipher, notified |-> created,
              upload |-> IF created.raised THEN RowFails(RowSucceeds(taken))
                         ELSE RowSucceeds(taken)]

\* The request's calls of the manager become the state.
Notified(n, user_id, message) ==
    /\ Becomes(n.manager)
    /\ delivered' = n.delivered
    /\ wsop' = ManagerCall("upload_patients_with_progress", 0, user_id, "", message,
                           n.cleaned, n.raised)
    /\ sender' = Overtaken(sender, active_connections')
    /\ UNCHANGED <<client_state, endpoint>>

\* upload_patients_with_progress, lines 92-190: the file is read into a
\* frame; a frame without the required columns is refused with 400; else
\* the file_upload row is added and committed with all the session holds.
UploadStarts(user, rows, columns_ok) ==
    /\ upload.pc = "idle"
    /\ LET progress == SendToUserIn(Quiet(Manager), "upload_progress", user.id)
       IN  IF columns_ok
           THEN /\ upload' = UploadRequest("rows", user.id, rows, 0, 0, 0, << >>,
                                           FileUpload(Len(rows), 0, 0, "processing"),
                                           << >>, 0)
                /\ patients' = patients + pending
                /\ pending' = 0
                /\ Notified(progress, user.id, "upload_progress")
           ELSE /\ upload' = UploadRequest("failed", user.id, << >>, 0, 0, 0, << >>,
                                           FileUpload(0, 0, 0, ""), << >>, 400)
                /\ UNCHANGED <<patients, pending>>
                /\ Notified(SendToUserIn(progress, "upload_error", user.id), user.id,
                            "upload_error")
    /\ UNCHANGED <<env, cipher, audit, outcome, bulk>>
    /\ UNCHANGED rotVars

\* One turn of the loop of lines 198-273.
UploadRow(accepts, iv) ==
    /\ upload.pc = "rows"
    /\ upload.index < Len(upload.rows)
    /\ LET r == UploadRowIn(Session(audit, pending, patients), cipher, env,
                            Quiet(Manager), upload, accepts, iv)
       IN  /\ upload' = r.upload
           /\ cipher' = r.cipher
           /\ audit' = r.db.audit
           /\ pending' = r.db.pending
           /\ patients' = r.db.patients
           /\ Notified(r.notified, upload.user_id, "upload_progress")
    /\ UNCHANGED <<env, outcome, bulk>>
    /\ UNCHANGED rotVars

\* Lines 275-320 after the loop: the counters go to the file_upload row and
\* the session is committed; the completion is notified to the user and to
\* the Admins. When the commit raises, lines 331-340 roll the session back,
\* notify the error and answer 500.
UploadCompletes(commit_ok) ==
    /\ upload.pc = "rows"
    /\ upload.index = Len(upload.rows)
    /\ LET progress == SendToUserIn(Quiet(Manager), "upload_progress", upload.user_id)
           status == IF upload.failed_count = 0 THEN "completed"
                     ELSE IF upload.successful_count > 0 THEN "partial" ELSE "failed"
       IN  IF commit_ok
           THEN /\ upload' = [upload EXCEPT
                                 !.pc = "done", !.response = 200,
                                 !.file_upload = FileUpload(@.total_records,
                                                            upload.successful_count,
                                                            upload.failed_count, status)]
                /\ patients' = patients + pending
                /\ pending' = 0
                /\ Notified(BroadcastToRoleIn(
                                SendToUserIn(progress, "upload_complete", upload.user_id),
                                AUDIT_LOG, "Admin"),
                            upload.user_id, "upload_complete")
           ELSE /\ upload' = [upload EXCEPT !.pc = "failed", !.response = 500]
                /\ pending' = 0
                /\ UNCHANGED patients
                /\ Notified(SendToUserIn(progress, "upload_error", upload.user_id),
                            upload.user_id, "upload_error")
    /\ UNCHANGED <<env, cipher, audit, outcome, bulk>>
    /\ UNCHANGED rotVars

\* What the database answers to the audit writes of a row's four calls.
RowAccepts == [1..Len(PatientFields) -> BOOLEAN]

\* The websocket that is opened beside an upload.
UploadHandles == {1}

\* An upload with a connection of its user or of an Admin.
UploadNext ==
    \/ \E h \in UploadHandles, u \in Users : Accept(h, u, NoConnectionId)
    \/ \E h \in UploadHandles : TransportCloses(h)
    \/ \E h \in UploadHandles : Connect(h)
    \/ \E h \in UploadHandles : Disconnect(h)
    \/ \E u \in Users, rows \in Frames, ok \in BOOLEAN : UploadStarts(u, rows, ok)
    \/ \E accepts \in RowAccepts, iv \in IVs : UploadRow(accepts, iv)
    \/ \E ok \in BOOLEAN : UploadCompletes(ok)

\* The rotate request that runs beside an upload.
RotationsBeside == {1}
\* The answers of the database to a row's audit writes, all four alike.
RowAcceptsAlike == {[i \in 1..Len(PatientFields) |-> b] : b \in BOOLEAN}

\* An upload beside rotations of the key.
KeyVersionNext ==
    \/ \E r \in RotationsBeside, v \in Versions, a \in Algorithms : RotateStart(r, v, a)
    \/ \E r \in RotationsBeside : CheckExisting(r)
    \/ \E r \in RotationsBeside : InsertKey(r)
    \/ \E r \in RotationsBeside : InsertKeyFails(r)
    \/ \E r \in RotationsBeside : CountAffected(r)
    \/ \E r \in RotationsBeside : CountAffectedFails(r)
    \/ \E r \in RotationsBeside : DeactivateOld(r)
    \/ \E r \in RotationsBeside : DeactivateOldFails(r)
    \/ \E r \in RotationsBeside : ActivateNew(r)
    \/ \E r \in RotationsBeside : ActivateNewFails(r)
    \/ \E u \in Users, rows \in Frames : UploadStarts(u, rows, TRUE)
    \/ \E accepts \in RowAcceptsAlike, iv \in IVs : UploadRow(accepts, iv)
    \/ \E ok \in BOOLEAN : UploadCompletes(ok)

\* The manager under endpoints whose clients may choose their connection id.
IdsNext ==
    \/ \E h \in Handles, u \in Users, k \in ClientConnectionIds \cup {NoConnectionId} :
          Accept(h, u, k)
    \/ \E h \in Handles : TransportCloses(h)
    \/ \E h \in Handles : TransportBreaks(h)
    \/ \E h \in Handles : Connect(h)
    \/ \E h \in Handles : Disconnect(h)
    \/ \E h \in Handles : SendPersonalMessage(h)

RegistryNext ==
    \/ \E h \in Handles, u \in Users : Accept(h, u, NoConnectionId)
    \/ \E h \in Handles : TransportCloses(h)
    \/ \E h \in Handles : TransportBreaks(h)
    \/ \E h \in Handles : Connect(h)
    \/ \E h \in Handles : Disconnect(h)
    \/ \E h \in Handles, r \in SubscriberRooms : JoinRoom(h, r)
    \/ \E h \in Handles, r \in SubscriberRooms : LeaveRoom(h, r)
    \/ \E h \in Handles : SendPersonalMessage(h)
    \/ \E u \in Users : SendToUser(u.id)
    \/ \E r \in RoomNames : SendToRoom(r)
    \/ BroadcastToAll

\* Both specifications start from the seeded database (seed_data.py: one
\* key, v1.0, active) and a freshly imported service (lines 19-21, 231).

\* The key store, with the service at rest and its key in place.
RotateInit ==
    /\ keys = SeedKeys
    /\ clock = 2
    /\ rot = [r \in Requests |-> IdleRequest]
    /\ reader = [pc |-> "idle", keys |-> << >>]
    /\ observed = Observation("none", << >>, "")
    /\ env = StartKey
    /\ cipher = ""
    /\ audit = << >>
    /\ pending = 0
    /\ patients = 0
    /\ outcome = NoOutcome
    /\ bulk = NoBulk
    /\ upload = NoUpload
    /\ active_connections = EmptyDict
    /\ connection_metadata = EmptyDict
    /\ rooms = EmptyDict
    /\ connection_ids = EmptyDict
    /\ client_state = [h \in Handles |-> "none"]
    /\ delivered = [h \in Handles |-> {}]
    /\ wsop = NoCall
    /\ sender = NoSender
    /\ endpoint = [h \in Handles |-> NoEndpoint]

SpecRotate == RotateInit /\ [][RotateNext]_vars

\* The key store with its readers (the reads change nothing in the store, so
\* the store's own properties are checked without them).
SpecRead == RotateInit /\ [][ReadNext]_vars

\* The key store and the service's callers together: rotate requests, and
\* calls of the legacy encrypt_field and decrypt_field between their steps.
KeyUseNext ==
    \/ \E r \in Requests, v \in Versions, a \in Algorithms : RotateStart(r, v, a)
    \/ \E r \in Requests : CheckExisting(r)
    \/ \E r \in Requests : InsertKey(r)
    \/ \E r \in Requests : InsertKeyFails(r)
    \/ \E r \in Requests : CountAffected(r)
    \/ \E r \in Requests : CountAffectedFails(r)
    \/ \E r \in Requests : DeactivateOld(r)
    \/ \E r \in Requests : DeactivateOldFails(r)
    \/ \E r \in Requests : ActivateNew(r)
    \/ \E r \in Requests : ActivateNewFails(r)
    \/ \E v \in Plaintexts, iv \in IVs : LegacyEncryptField(v, iv)
    \/ \E v \in Ciphertexts : LegacyDecryptField(v)

SpecKeyUse == RotateInit /\ [][KeyUseNext]_vars

\* The service, started with whatever ENCRYPTION_KEY holds.
EncInit ==
    /\ keys = SeedKeys
    /\ clock = 2
    /\ rot = [r \in Requests |-> IdleRequest]
    /\ reader = [pc |-> "idle", keys |-> << >>]
    /\ observed = Observation("none", << >>, "")
    /\ env \in EnvKeys
    /\ cipher = ""
    /\ audit = << >>
    /\ pending = 0
    /\ patients = 0
    /\ outcome = NoOutcome
    /\ bulk = NoBulk
    /\ upload = NoUpload
    /\ active_connections = EmptyDict
    /\ connection_metadata = EmptyDict
    /\ rooms = EmptyDict
    /\ connection_ids = EmptyDict
    /\ client_state = [h \in Handles |-> "none"]
    /\ delivered = [h \in Handles |-> {}]
    /\ wsop = NoCall
    /\ sender = NoSender
    /\ endpoint = [h \in Handles |-> NoEndpoint]

SpecEnc == EncInit /\ [][EncNext]_vars

\* The service under its bulk operations.
SpecBulk == EncInit /\ [][BulkNext]_vars

\* The connection manager, every call of it running to its end before the
\* next one starts.
SpecRegistry == RotateInit /\ [][RegistryNext]_vars

\* The connection manager with a send_to_user call that other tasks
\* overtake at its awaits.
SpecSend == RotateInit /\ [][SendNext]_vars

\* The connection manager with connection ids that clients choose.
SpecIds == RotateInit /\ [][IdsNext]_vars

\* The general and the admin endpoint handling their clients' messages.
SpecEndpoints == RotateInit /\ [][EndpointsNext]_vars

\* The endpoints and the periodic health updates.
SpecHealth == RotateInit /\ [][HealthNext]_vars

\* The key store under rotation beside an upload.
SpecKeyVersion == RotateInit /\ [][KeyVersionNext]_vars

\* An upload by a service started with whatever ENCRYPTION_KEY holds.
SpecUpload == EncInit /\ [][UploadNext]_vars

\* The notifier's events for the acting user, and the general endpoint.
SpecNotifyUser == RotateInit /\ [][NotifyUserNext]_vars

\* The notifier's events for the Admins, and the two endpoints.
SpecNotifyAdmins == RotateInit /\ [][NotifyAdminsNext]_vars

\* ============================================ encryption service: claims
Called == outcome.op # "none"
ErrorPrefix(op) == IF op = "encrypt" THEN "Encryption failed: " ELSE "Decryption failed: "
LastAuditRow == audit[Len(audit)]

\* C8: every call of encrypt_field or decrypt_field, with or without a
\* session, through the legacy wrappers or not, failing or not, appends
\* exactly one audit row when the audit store accepts the write.
C8_ExactlyOneAuditRecord ==
    (Called /\ outcome.accepts) => outcome.appended = 1

\* C9: a call with a session whose key cannot be loaded or whose transform
\* fails raises, and the audit row it appends (one, when the store accepts the
\* write) has success = false, a non-empty error_message and the call's
\* operation; the row of a call that returns has success = true.
C9_AuditRecordTellsOutcome ==
    (Called /\ outcome.has_db) =>
        /\ ~outcome.transform.ok => outcome.raised
        /\ outcome.accepts => outcome.appended = 1
        /\ outcome.appended = 1 =>
              /\ LastAuditRow.operation = outcome.op
              /\ outcome.raised =>
                    ~LastAuditRow.success /\ LastAuditRow.error_message # ""
              /\ ~outcome.raised => LastAuditRow.success

\* C9 witness: a decrypt of a str that is no token (InvalidToken, whose own
\* message is empty) raised and its failure row is the last of the table.
C9_Witness ==
    /\ outcome.op = "decrypt" /\ outcome.has_db /\ outcome.raised
    /\ ~outcome.transform.ok /\ outcome.transform.error = ""
    /\ outcome.appended = 1
    /\ ~LastAuditRow.success /\ LastAuditRow.operation = "decrypt"
    /\ LastAuditRow.error_message = "Decryption failed: "

\* C10: when the audit write fails, a call whose cipher work succeeded still
\* returns its ciphertext or plaintext, and a call whose cipher work failed
\* still raises the encryption or decryption error; the audit failure is not
\* raised.
C10_AuditFailureKeepsOutcome ==
    (Called /\ outcome.has_db /\ ~outcome.accepts) =>
        /\ outcome.transform.ok =>
              ~outcome.raised /\ outcome.value = outcome.transform.value
        /\ ~outcome.transform.ok =>
              /\ outcome.raised
              /\ outcome.error = ErrorPrefix(outcome.op) \o outcome.transform.error

\* C10 witness: an encrypt_field call returned its token although the audit
\* table refused the row.
C10_Witness ==
    /\ outcome.op = "encrypt" /\ outcome.has_db /\ ~outcome.accepts
    /\ outcome.transform.ok /\ ~outcome.raised
    /\ outcome.value.type = "token" /\ outcome.appended = 0

\* C11: with the key fixed, a decrypt_field call given the ciphertext that an
\* encrypt_field call of a string x returned, returns exactly x, whichever
\* initialisation vector the encryption drew and whether or not either call
\* has a session or its audit write is accepted.
C11_RoundTrip ==
    [][ ( /\ outcome.op = "encrypt" /\ ~outcome.raised
          /\ outcome'.op = "decrypt" /\ outcome'.input = outcome.value )
        => /\ ~outcome'.raised
           /\ outcome'.value = outcome.input ]_vars

\* C11 witness: the two-character string with the accent was encrypted with
\* the second initialisation vector, and the decryption of that ciphertext has
\* returned it; both calls are in the audit table.
C11_Witness ==
    /\ outcome.op = "decrypt" /\ ~outcome.raised
    /\ outcome.input = Token(cipher, 2, Utf8Encode(<<97, 233>>))
    /\ outcome.value = Str(<<97, 233>>)
    /\ Len(audit) = 2
    /\ audit[1].operation = "encrypt" /\ audit[1].success
    /\ audit[2].operation = "decrypt" /\ audit[2].success

\* C12: a call made after a rotate request has completed works with the new
\* version's key material and not with the key of before the rotation: what
\* encrypt_field returns is not sealed with the previous key, and
\* decrypt_field raises for a ciphertext sealed with the previous key.
C12_CallsUseActiveKey ==
    [][ ( /\ \E r \in Requests : Succeeded(r)
          /\ rot' = rot /\ outcome' # outcome )
        => /\ (outcome'.op = "encrypt" /\ ~outcome'.raised)
                 => outcome'.value.key # StartKey.material
           /\ ( /\ outcome'.op = "decrypt" /\ outcome'.input.type = "token"
                /\ outcome'.input.key = StartKey.material )
                 => outcome'.raised ]_vars

\* ================================================ bulk operations: claims
\* The fields the input of the last bulk call holds, by their plain names.
BulkInputFields ==
    {f \in PlainFieldNames :
        IF bulk.op = "encrypt" THEN f \in DOMAIN bulk.data
        ELSE EncryptedName(f) \in DOMAIN bulk.data}
\* The key under which the result holds field f.
BulkResultName(f) == IF bulk.op = "encrypt" THEN EncryptedName(f) ELSE f

\* Whether encrypt_field or decrypt_field, called for field f of the input
\* alone, does its cipher work without raising.
BulkFieldOk(f) ==
    IF bulk.op = "encrypt" THEN EncryptTransform(cipher, env, bulk.data[f], 1).ok
    ELSE DecryptTransform(cipher, env, bulk.data[EncryptedName(f)]).ok

\* C13: after bulk_encrypt_patient_data or bulk_decrypt_patient_data, also
\* when a field failed, every field of the input that does not fail itself
\* appears in the result, and with a session whose audit writes are
\* accepted every field of the input has its own audit row.
C13_BulkFieldFailureIsolated ==
    bulk.op # "none" =>
        /\ \A f \in BulkInputFields :
              BulkFieldOk(f) => BulkResultName(f) \in DOMAIN bulk.result
        /\ (bulk.has_db /\ bulk.accepts) =>
              \A f \in BulkInputFields :
                  Cardinality({i \in DOMAIN bulk.rows : bulk.rows[i].field_name = f}) = 1

\* ================================================ the connection manager: claims
\* Whether the websocket is in the room.
InRoom(websocket, room_name) == room_name \in DOMAIN rooms /\ websocket \in rooms[room_name]
\* Whether the websocket is in its user's list.
InUserIndex(websocket) ==
    \E user_id \in DOMAIN active_connections : InList(active_connections[user_id], websocket)
\* Whether the websocket is in the index of connection ids.
InIdIndex(websocket) == \E id \in DOMAIN connection_ids : connection_ids[id] = websocket

\* C14: whenever connect(h, uid, role) has returned normally, whatever the
\* state of h's transport was during the call, is_user_connected(uid) is
\* true and h is in the user room of uid and in the role room of role.
C14_ConnectRegisters ==
    (wsop.op = "connect" /\ ~wsop.raised) =>
        /\ IsUserConnected(Manager, wsop.user_id)
        /\ InRoom(wsop.websocket, UserRoom(wsop.user_id))
        /\ InRoom(wsop.websocket, RoleRoom(endpoint[wsop.websocket].user_data.role_name))

\* C15: after disconnect(h), h is in no room, in no user's list, without
\* metadata and without an entry in the index of connection ids, and its
\* user is not connected when h was the user's only connection; a
\* disconnect(h) after the first raises nothing and changes none of the
\* manager's maps.
C15_DisconnectRemoves ==
    [][ \A h \in Handles :
          Disconnect(h) =>
              /\ ~wsop'.raised
              /\ \A r \in DOMAIN rooms' : h \notin rooms'[r]
              /\ ~InUserIndex(h)'
              /\ h \notin DOMAIN connection_metadata'
              /\ ~InIdIndex(h)'
              /\ \A u \in DOMAIN active_connections :
                    active_connections[u] = << h >> => ~IsUserConnected(Manager, u)'
              /\ endpoint[h].pc = "done" =>
                    UNCHANGED <<active_connections, connection_metadata, rooms,
                                connection_ids>> ]_vars

\* C16: in every state of the manager every room of the rooms map has at
\* least one member: a room whose last member leaves through leave_room, or
\* is removed by a disconnect (also one a send triggers), is deleted.
C16_NoEmptyRoom == \A r \in DOMAIN rooms : rooms[r] # {}

\* The websockets a send of the given kind and arguments goes to.
Targets(op, websocket, user_id, room_name) ==
    CASE op = "send_personal_message" -> {websocket}
      [] op = "send_to_user" ->
            IF user_id \in DOMAIN active_connections
            THEN {h \in Handles : InList(active_connections[user_id], h)} ELSE {}
      [] op = "send_to_room" -> IF room_name \in DOMAIN rooms THEN rooms[room_name] ELSE {}
      [] op = "broadcast_to_all" -> {h \in Handles : InUserIndex(h)}
      [] OTHER -> {}

\* A step that is one of the four sends.
Sends ==
    \/ \E h \in Handles : SendPersonalMessage(h)
    \/ \E u \in Users : SendToUser(u.id)
    \/ \E r \in RoomNames : SendToRoom(r)
    \/ BroadcastToAll

InListOf(user_id, websocket) ==
    user_id \in DOMAIN active_connections /\ InList(active_connections[user_id], websocket)

C20_SendToNoOne ==
    [][ \A r \in RoomNames :
          (SendToRoom(r) /\ (r \notin DOMAIN rooms \/ rooms[r] = {})) =>
              /\ delivered' = NoneDelivered
              /\ ~wsop'.raised
              /\ wsop'.cleaned = {}
              /\ UNCHANGED <<active_connections, connection_metadata, rooms,
                             connection_ids>> ]_vars
\* A send_to_room to a room that is not in the map has ended, while a
\* websocket is registered and the map holds a room without members.
C20_Witness ==
    /\ wsop.op = "send_to_room"
    /\ wsop.room_name \notin DOMAIN rooms
    /\ \E r \in DOMAIN rooms : rooms[r] = {}
    /\ connection_metadata # EmptyDict

\* C19: send_to_user has tried every connection of the user that was in the
\* user's list and open from the beginning of the call to its end, also
\* when another connection of the user was disconnected while the call
\* awaited a send. (A websocket leaves the list once and its transport never
\* opens again, so one that is in the list and open at both ends was so
\* throughout.)
C19_NoLiveConnectionSkipped ==
    (sender.pc = "idle" /\ wsop.op = "send_to_user") =>
        \A h \in sender.present :
            (InListOf(sender.user_id, h) /\ client_state[h] = "open")
                => h \in sender.attempted

\* C28: in every state of the manager every member of every room is a
\* registered websocket: it has metadata and is in its user's list.
C28_RoomMembersRegistered ==
    \A r \in DOMAIN rooms : \A h \in rooms[r] :
        /\ h \in DOMAIN connection_metadata
        /\ InListOf(connection_metadata[h].user_id, h)

\* C29: in every state of the manager the index of connection ids and the
\* metadata agree: the id of every websocket with metadata leads to that
\* websocket in the index, and every id of the index leads to a websocket
\* whose metadata holds that id; also when clients choose their ids, two of
\* them the same one, and after one of the two has disconnected.
C29_IdIndexAgrees ==
    /\ \A c \in DOMAIN connection_metadata :
          LET k == connection_metadata[c].connection_id
          IN  k \in DOMAIN connection_ids /\ connection_ids[k] = c
    /\ \A k \in DOMAIN connection_ids :
          /\ connection_ids[k] \in DOMAIN connection_metadata
          /\ connection_metadata[connection_ids[k]].connection_id = k

\* C23: a client message whose type the endpoint does not recognise, received
\* on the general or on the admin endpoint from a registered connection
\* whose transport is open, is answered with an error message; the
\* connection stays registered and its receive loop goes on.
C23_UnknownTypeAnswered ==
    [][ \A h \in Handles, t \in ClientMessageTypes, f \in BOOLEAN :
          /\ ( /\ HandleWebsocketMessage(h, t, f)
               /\ t \notin GeneralMessageTypes
               /\ client_state[h] = "open" /\ h \in DOMAIN connection_metadata )
             => ( /\ ERROR \in delivered'[h]
                  /\ h \in DOMAIN connection_metadata'
                  /\ endpoint'[h].pc = "loop" )
          /\ ( /\ HandleAdminMessage(h, t, f)
               /\ t \notin AdminMessageTypes
               /\ client_state[h] = "open" /\ h \in DOMAIN connection_metadata )
             => ( /\ ERROR \in delivered'[h]
                  /\ h \in DOMAIN connection_metadata'
                  /\ endpoint'[h].pc = "loop" ) ]_vars

\* The subscriptions a client can ask for.
SubscribeTypes == {"subscribe_audit", "subscribe_health"}
\* C25: a connection whose user's role is not Admin is never a member of
\* audit_subscribers or health_subscribers; a subscribe_audit or
\* subscribe_health message from such a connection adds no websocket to any
\* room and, its transport being open, is answered with an error message
\* and leaves the rooms as they are.
C25_SubscribersAreAdmins ==
    /\ [](\A h \in Handles, r \in SubscriberRooms :
             InRoom(h, r) => endpoint[h].user_data.role_name = "Admin")
    /\ [][ \A h \in Handles, t \in SubscribeTypes, f \in BOOLEAN :
             (HandleWebsocketMessage(h, t, f) /\ endpoint[h].user_data.role_name # "Admin")
             => ( /\ DOMAIN rooms' \subseteq DOMAIN rooms
                  /\ \A r \in DOMAIN rooms' : rooms'[r] \subseteq rooms[r]
                  /\ client_state[h] = "open"
                     => (delivered'[h] = {ERROR} /\ rooms' = rooms) ) ]_vars
\* A Manager's connection has asked for a subscription while an Admin's
\* connection is a subscriber, and has been answered with the error message.
C25_Witness ==
    /\ wsop.op = "handle_websocket_message"
    /\ wsop.message \in SubscribeTypes
    /\ endpoint[wsop.websocket].user_data.role_name = "Manager"
    /\ delivered[wsop.websocket] = {ERROR}
    /\ \E a \in Handles \ {wsop.websocket} : InRoom(a, "audit_subscribers")

\* C30: in every cycle of periodic_admin_updates whose health data can be
\* collected, every member of health_subscribers whose transport is open is
\* sent the health update, also when another member is found closed and is
\* disconnected in the same cycle.
C30_EveryOpenSubscriberUpdated ==
    [][ \A order \in Orders(HealthSubscribers) :
          PeriodicAdminUpdates(order, FALSE)
          => \A h \in HealthSubscribers :
                client_state[h] = "open" => SYSTEM_HEALTH \in delivered'[h] ]_vars

\* C21: when a notification of an upload or patient event for user u has
\* been sent, every connection of u that was registered and open from the
\* beginning of the send to its end has the notification, and no connection
\* of another user has it, whatever rooms the connections are in.
C21_ActingUserOnly ==
    (sender.pc = "idle" /\ wsop.op = "send_to_user" /\ wsop.message \in UserEvents) =>
        /\ \A h \in sender.present :
              (InListOf(wsop.user_id, h) /\ client_state[h] = "open")
                  => wsop.message \in delivered[h]
        /\ \A h \in Handles :
              delivered[h] # {} => endpoint[h].user_data.id = wsop.user_id

\* C22: when an audit_log or system_health notification has been sent,
\* every connection that connected with role Admin and was registered and
\* open from the beginning of the send to its end has the notification, and
\* no connection that connected with another role has it, after any
\* sequence of connects, disconnects, subscriptions and sends.
C22_AdminsOnly ==
    (sender.pc = "idle" /\ wsop.op = "send_to_room" /\ wsop.message \in AdminEvents) =>
        /\ \A h \in sender.present :
              (h \in DOMAIN connection_metadata /\ client_state[h] = "open")
                  => wsop.message \in delivered[h]
        /\ \A h \in Handles :
              delivered[h] # {} => endpoint[h].user_data.role_name = "Admin"
\* An audit or health notification has reached an Admin's connection while
\* a Manager's connection, registered and open, has nothing.
C22_Witness ==
    /\ sender.pc = "idle" /\ wsop.op = "send_to_room" /\ wsop.message \in AdminEvents
    /\ \E a \in sender.present : delivered[a] = {wsop.message}
    /\ \E g \in DOMAIN connection_metadata :
          /\ connection_metadata[g].user_role = "Manager"
          /\ client_state[g] = "open"
          /\ delivered[g] = {}

\* C27: an encrypt_field or decrypt_field call that is given the caller's
\* session and writes its audit record, the write succeeding or failing,
\* leaves what the caller has pending in that session pending: it neither
\* commits it nor discards it.
C27_PendingUntouched ==
    [][ \A f \in FieldNames, c \in Contexts, ok \in BOOLEAN :
          /\ \A v \in Plaintexts, iv \in IVs :
                EncryptField(v, f, TRUE, c, ok, iv)
                    => (pending' = pending /\ patients' = patients)
          /\ \A v \in Ciphertexts :
                DecryptField(v, f, TRUE, c, ok)
                    => (pending' = pending /\ patients' = patients) ]_vars

\* C24: in an upload a row whose field encryption fails does not end the
\* batch: the loop takes every row, every row taken is counted exactly once,
\* as successful or as failed, and when the upload completes
\* successful_records + failed_records = total_records. Only the commit
\* after the last row can fail the request.
C24_RowsCountedOnce ==
    /\ upload.pc \in {"rows", "done"} =>
          /\ Len(upload.counted) = upload.index
          /\ \A i \in 1..upload.index : upload.counted[i] = 1
          /\ upload.successful_count + upload.failed_count = upload.index
    /\ upload.pc = "done" =>
          /\ upload.index = Len(upload.rows)
          /\ upload.file_upload.total_records = Len(upload.rows)
          /\ upload.file_upload.successful_records + upload.file_upload.failed_records
                = upload.file_upload.total_records
    /\ (upload.pc = "failed" /\ upload.response = 500) =>
          upload.index = Len(upload.rows)
\* An upload of two rows has completed after the encryption of the first
\* row failed and was recorded, with both rows counted.
C24_Witness ==
    /\ upload.pc = "done"
    /\ upload.rows = <<"valid", "valid">>
    /\ upload.failed_count = 2
    /\ Len(audit) >= 2
    /\ ~audit[1].success /\ audit[1].operation = "encrypt"
    /\ upload.file_upload.status = "failed"

\* C26: while the key store has one active key, every encryption audit
\* record that is written carries that key's version as key_version, and
\* every patient an upload creates carries it as encryption_key_version,
\* also after rotations have completed.
C26_VersionOfActiveKey ==
    [][ ActiveCount(keys) = 1 =>
          LET active == keys[CHOOSE i \in ActiveIds(keys) : TRUE].key_version
          IN  /\ \A i \in (Len(audit) + 1)..Len(audit') : audit'[i].key_version = active
              /\ \A i \in (Len(upload.created) + 1)..Len(upload'.created) :
                    upload'.created[i].encryption_key_version = active ]_vars

====
